---- MODULE Spec2Model ----
(***************************************************************************)
(* Model of the statistical anomaly detection and root-cause engine of the *)
(* System Performance Analyzer (src/src/analyzer.py, src/src/root_cause.py,*)
(* src/src/storage.py, src/src/utils.py).                                  *)
(*                                                                         *)
(* Numbers.  Percentages, means, standard deviations and z-scores are      *)
(* fixed-point integers in hundredths (50.00 % is 5000, the std_dev floor  *)
(* 0.01 is 1, the cutoff 1.5 is 150).  Statistics round down to a          *)
(* hundredth.  Times are whole seconds counted from a Monday 00:00:00.     *)
(* Python's None is the integer None (-1) where a number is expected.      *)
(***************************************************************************)
EXTENDS Integers, Sequences, FiniteSets, TLC

None == 0 - 1

Abs(x) == IF x < 0 THEN 0 - x ELSE x

Min2(a, b) == IF a <= b THEN a ELSE b

Max2(a, b) == IF a >= b THEN a ELSE b

RECURSIVE SumSeq(_)
SumSeq(s) == IF s = <<>> THEN 0 ELSE Head(s) + SumSeq(Tail(s))

RECURSIVE MinSeq(_)
MinSeq(s) == IF Len(s) = 1 THEN s[1] ELSE Min2(Head(s), MinSeq(Tail(s)))

RECURSIVE MaxSeq(_)
MaxSeq(s) == IF Len(s) = 1 THEN s[1] ELSE Max2(Head(s), MaxSeq(Tail(s)))

RECURSIVE ISqrtIn(_, _, _)
ISqrtIn(n, lo, hi) ==
    IF lo >= hi THEN lo
    ELSE LET mid == (lo + hi + 1) \div 2
         IN  IF mid * mid <= n THEN ISqrtIn(n, mid, hi) ELSE ISqrtIn(n, lo, mid - 1)

\* floor of the square root of n, 0 <= n < 2^30
ISqrt(n) == ISqrtIn(n, 0, 32767)

Reverse(s) == [i \in 1..Len(s) |-> s[Len(s) + 1 - i]]

SeqToSet(s) == {s[i] : i \in 1..Len(s)}

NoDup(s) == \A i, j \in 1..Len(s) : i # j => s[i] # s[j]

(***************************************************************************)
(* State                                                                   *)
(***************************************************************************)
VARIABLES
    \* RootCauseAnalyzer._build_process_tree (src/src/root_cause.py:176-206)
    current_processes,  \* the snapshot passed in: sequence of [pid, ppid]
    target_pid,         \* the pid the chain starts from
    tree,               \* local list `tree`
    visited,            \* local set `visited`
    current_pid,        \* local `current_pid`
    tpc,                \* position in _build_process_tree
    iters,              \* number of loop-body executions so far
    tree_result         \* the returned list (<<>> until the return)

treeVars == <<current_processes, target_pid, tree, visited, current_pid, tpc,
              iters, tree_result>>

VARIABLES
    \* Analyzer (src/src/analyzer.py:27-50)
    severity_levels,    \* self.severity_levels: cutoffs in hundredths
    \* the two latest evaluations of the z-score path, newest first
    probe

sevVars == <<severity_levels, probe>>

VARIABLES
    now,                \* the wall clock, datetime.now()
    ticks,              \* how many times the clock has advanced
    stored,             \* how many samples the collector has stored
    \* DatabaseManager (src/src/storage.py): the two tables the analyzer uses
    system_metrics,     \* rows [timestamp, cpu_percent, ...] in timestamp order
    baselines,          \* (metric, context) -> <<>> or <<row>>
    \* Analyzer (src/src/analyzer.py:37-48)
    baselines_cache,    \* self._baselines_cache: key -> <<>> (key absent) or <<stats>>
    last_baseline_update, \* self._last_baseline_update, None until the first refresh
    memory_history,     \* self._memory_history: sequence of <<timestamp, memory_used>>
    swap_history,       \* self._swap_history: sequence of <<timestamp, swap_used>>
    last_call           \* the latest call made on the analyzer or the store, its
                        \* arguments and what it returned

dbVars == <<system_metrics, baselines>>

analyzerVars == <<baselines_cache, last_baseline_update, memory_history, swap_history>>

mainVars == <<now, ticks, stored, dbVars, analyzerVars, last_call>>

VARIABLES
    \* Analyzer.update_baselines (src/src/analyzer.py:72-120) taken line by line
    rpc,                \* position in update_baselines
    rpair,              \* number of the (metric, context) pair of the loop
    rnow,               \* local `now` of line 77
    rvalues,            \* local `values`
    rstats,             \* local `stats`: <<>> before line 98
    queried             \* every list of values a baseline was computed from

refreshVars == <<rpc, rpair, rnow, rvalues, rstats, queried>>

VARIABLES
    \* RootCauseAnalyzer.analyze (src/src/root_cause.py:24-74) as the monitor
    \* calls it (src/monitor.py:105-106)
    anomaly,            \* the anomaly dict handed to analyze, <<>> before one is
    processes,          \* the process snapshot handed to analyze
    rc_call             \* the latest call of analyze and what its queries did

rcVars == <<anomaly, processes, rc_call>>

VARIABLES
    \* PerformanceMonitor (src/monitor.py:42-161)
    running,            \* self.running
    lpc,                \* position of run(): "start", "top", "cycle", "refresh",
                        \* "sleep", "except", "shutdown", "close", "done", "raised"
    handler_ran,        \* a SIGINT or SIGTERM handler has run
    new_cycles,         \* cycles started since the first handler ran
    shutdowns,          \* how many times _shutdown has been entered
    db_closed,          \* db.close() has run
    monitor_baseline_update, \* self._last_baseline_update of the monitor
    cycle_count,        \* self.cycle_count
    stdout_ok           \* a print to standard output succeeds

loopVars == <<running, lpc, handler_ran, new_cycles, shutdowns, db_closed,
              monitor_baseline_update, cycle_count, stdout_ok>>

VARIABLES
    \* the recommendations table (src/src/storage.py:284-310)
    recommendations     \* sequence of [timestamp, recommendation_type, stored_at]

recVars == <<recommendations>>

vars == <<treeVars, sevVars, mainVars, refreshVars, rcVars, loopVars, recVars>>

(***************************************************************************)
(* Time contexts, monitored metrics, baselines                             *)
(***************************************************************************)
\* Analyzer.MONITORED_METRICS, in its order
MONITORED_METRICS == <<"cpu_percent", "memory_percent", "swap_percent">>

\* the list `contexts` of update_baselines, in its order
Contexts == <<"weekday_morning", "weekday_afternoon", "weekday_evening",
              "weekday_night", "weekend_day", "weekend_night">>

Pairs == SeqToSet(MONITORED_METRICS) \X SeqToSet(Contexts)

SecondsPerHour == 60 * 60

SecondsPerDay == 24 * SecondsPerHour

\* dt.weekday(): 0 = Monday ... 6 = Sunday
Weekday(dt) == (dt \div SecondsPerDay) % 7

\* dt.hour
Hour(dt) == (dt \div SecondsPerHour) % 24

\* utils.get_time_context(dt)
GetTimeContext(dt) ==
    LET day_of_week == Weekday(dt)
        hour == Hour(dt)
    IN  IF day_of_week < 5
        THEN IF 6 <= hour /\ hour <= 11 THEN "weekday_morning"
             ELSE IF 12 <= hour /\ hour <= 17 THEN "weekday_afternoon"
             ELSE IF 18 <= hour /\ hour <= 22 THEN "weekday_evening"
             ELSE "weekday_night"
        ELSE IF 8 <= hour /\ hour <= 20 THEN "weekend_day"
             ELSE "weekend_night"

\* an empty baselines table, an empty cache
NoBaselines == [p \in Pairs |-> <<>>]

\* the analyzer and the store before anything has run; the state of these
\* variables in the specifications that do not use them
MainIdle ==
    /\ now = 0
    /\ ticks = 0
    /\ stored = 0
    /\ system_metrics = <<>>
    /\ baselines = NoBaselines
    /\ baselines_cache = NoBaselines
    /\ last_baseline_update = None
    /\ memory_history = <<>>
    /\ swap_history = <<>>
    /\ last_call = [op |-> "none"]

(***************************************************************************)
(* Severity classification: Analyzer._check_zscore, _classify_severity     *)
(***************************************************************************)
Tiers == {"low", "medium", "high", "critical"}

Severities == {"normal"} \cup Tiers

\* the order normal < low < medium < high < critical
Rank(sev) ==
    CASE sev = "normal" -> 0
      [] sev = "low" -> 1
      [] sev = "medium" -> 2
      [] sev = "high" -> 3
      [] sev = "critical" -> 4

\* analysis_cfg.get("anomaly_severity_levels", {...}): the default cutoffs
DefaultSeverityLevels == [low |-> 150, medium |-> 200, high |-> 250, critical |-> 300]

\* configurations the model runs under: the default and two other cutoff
\* tables that keep the documented order low < medium < high < critical
SeverityConfigs ==
    { DefaultSeverityLevels,
      [low |-> 100, medium |-> 200, high |-> 300, critical |-> 400],
      [low |-> 50, medium |-> 125, high |-> 250, critical |-> 500] }

\* z_score = (value - mean) / std_dev, in hundredths, rounded toward zero
ZScore(value, mean, std_dev) ==
    IF value >= mean
    THEN ((value - mean) * 100) \div std_dev
    ELSE 0 - (((mean - value) * 100) \div std_dev)

\* _classify_severity with the comparisons strict (> instead of >=)
ClassifySeverityStrict(abs_z_score, levels) ==
    IF abs_z_score > levels.critical THEN "critical"
    ELSE IF abs_z_score > levels.high THEN "high"
    ELSE IF abs_z_score > levels.medium THEN "medium"
    ELSE IF abs_z_score > levels.low THEN "low"
    ELSE "normal"

\* _classify_severity with the results of the high and medium branches swapped
ClassifySeveritySwapped(abs_z_score, levels) ==
    IF abs_z_score >= levels.critical THEN "critical"
    ELSE IF abs_z_score >= levels.high THEN "medium"
    ELSE IF abs_z_score >= levels.medium THEN "high"
    ELSE IF abs_z_score >= levels.low THEN "low"
    ELSE "normal"

ClassifySeverity(abs_z_score, levels) ==
    IF abs_z_score >= levels.critical THEN "critical"
    ELSE IF abs_z_score >= levels.high THEN "high"
    ELSE IF abs_z_score >= levels.medium THEN "medium"
    ELSE IF abs_z_score >= levels.low THEN "low"
    ELSE "normal"

\* type_map of _get_anomaly_type; metric_name is always a monitored metric
GetAnomalyType(metric_name, z_score) ==
    CASE metric_name = "cpu_percent" ->
            (IF z_score > 0 THEN "cpu_spike" ELSE "cpu_drop")
      [] metric_name = "memory_percent" ->
            (IF z_score > 0 THEN "memory_pressure" ELSE "memory_drop")
      [] metric_name = "swap_percent" ->
            (IF z_score > 0 THEN "swap_pressure" ELSE "swap_drop")
      [] OTHER -> "unknown_anomaly"

\* the test of line 168 with "low" left out of the tuple
SuppressedNormalOnly == {"normal"}

\* the severities for which _check_zscore returns None
Suppressed == {"normal", "low"}

\* _check_zscore: <<>> for None, else a one-element sequence holding the
\* anomaly dict (the description text and the null root_cause are left out)
CheckZscore(timestamp, metric_name, value, baseline, context, levels) ==
    LET z_score == ZScore(value, baseline.mean, baseline.std_dev)
        severity == ClassifySeverity(Abs(z_score), levels)
    IN  IF severity \in Suppressed
        THEN <<>>
        ELSE << [ timestamp |-> timestamp,
                  anomaly_type |-> GetAnomalyType(metric_name, z_score),
                  severity |-> severity,
                  metric_name |-> metric_name,
                  metric_value |-> value,
                  baseline_mean |-> baseline.mean,
                  baseline_stddev |-> baseline.std_dev,
                  z_score |-> z_score ] >>

\* inputs of the z-score path: values, means and standard deviations that
\* put |z| on, just below, between and above the cutoffs
ProbeValues == {1000, 4700, 4998, 5000, 5001, 5002, 5003, 5500, 6000, 6250,
                6499, 6500, 7000, 7499, 7500, 8000, 8500}

ProbeMeans == {5000}

ProbeStdDevs == {1, 300, 1000}

SevIdle ==
    /\ severity_levels = DefaultSeverityLevels
    /\ probe = <<>>

TreeIdle ==
    /\ current_processes = <<>>
    /\ target_pid = None
    /\ tree = <<>>
    /\ visited = {}
    /\ current_pid = None
    /\ tpc = "idle"
    /\ iters = 0
    /\ tree_result = <<>>

\* the monitor has not been started
LoopIdle ==
    /\ running = FALSE
    /\ lpc = "start"
    /\ handler_ran = FALSE
    /\ new_cycles = 0
    /\ shutdowns = 0
    /\ db_closed = FALSE
    /\ monitor_baseline_update = None
    /\ cycle_count = 0
    /\ stdout_ok = TRUE

\* no recommendation has been stored
RecIdle == recommendations = <<>>

\* no anomaly has been handed to the root-cause analyzer
RcIdle ==
    /\ anomaly = <<>>
    /\ processes = <<>>
    /\ rc_call = [op |-> "none"]

\* update_baselines is not running
RefreshIdle ==
    /\ rpc = "idle"
    /\ rpair = 0
    /\ rnow = None
    /\ rvalues = <<>>
    /\ rstats = <<>>
    /\ queried = {}

SevInit ==
    /\ TreeIdle
    /\ MainIdle
    /\ RefreshIdle
    /\ RcIdle
    /\ LoopIdle
    /\ RecIdle
    /\ severity_levels \in SeverityConfigs
    /\ probe = <<>>

\* one run of lines 162-169 on a value and a baseline's mean and std_dev
ProbeZscore ==
    \E value \in ProbeValues, mean \in ProbeMeans, std_dev \in ProbeStdDevs :
        LET baseline == [mean |-> mean, std_dev |-> std_dev]
            z_score  == ZScore(value, mean, std_dev)
            entry == [ value |-> value, mean |-> mean, std_dev |-> std_dev,
                       z_score |-> z_score,
                       severity |-> ClassifySeverity(Abs(z_score), severity_levels),
                       anomaly |-> CheckZscore(0, "cpu_percent", value, baseline,
                                               "weekday_night", severity_levels) ]
        IN  /\ probe' = <<entry>> \o SubSeq(probe, 1, Min2(1, Len(probe)))
            /\ UNCHANGED severity_levels
            /\ UNCHANGED <<treeVars, mainVars, refreshVars, rcVars, loopVars, recVars>>

SevNext == ProbeZscore

SpecSeverity == SevInit /\ [][SevNext]_vars

(***************************************************************************)
(* Storage: the system_metrics and baselines tables (src/src/storage.py)   *)
(***************************************************************************)
RetentionDays == 7

BaselineHistoryDays == 7

\* store_system_metrics: INSERT OR REPLACE keyed by the timestamp (whole
\* seconds); rows stay in timestamp order.  A failed write is swallowed.
StoreSystemMetricsRows(rows, timestamp, data) ==
    LET row == [ timestamp |-> timestamp,
                 cpu_percent |-> data.cpu_percent,
                 memory_percent |-> data.memory_percent,
                 swap_percent |-> data.swap_percent ]
        others == SelectSeq(rows, LAMBDA r : r.timestamp # timestamp)
        before == SelectSeq(others, LAMBDA r : r.timestamp < timestamp)
        after  == SelectSeq(others, LAMBDA r : r.timestamp > timestamp)
    IN  before \o <<row>> \o after

RECURSIVE ValuesOf(_, _)
ValuesOf(rows, metric_name) ==
    IF rows = <<>> THEN <<>>
    ELSE (IF Head(rows)[metric_name] # None
          THEN <<Head(rows)[metric_name]>> ELSE <<>>)
         \o ValuesOf(Tail(rows), metric_name)

\* get_metric_values_for_context(metric_name, context, days) read at `clock`
GetMetricValuesForContext(rows, metric_name, context, days, clock) ==
    LET since == clock - days * SecondsPerDay
        chosen == SelectSeq(rows, LAMBDA r :
                      r.timestamp > since /\ GetTimeContext(r.timestamp) = context)
    IN  ValuesOf(chosen, metric_name)

\* cleanup_old_data: DELETE FROM system_metrics WHERE timestamp < cutoff
CleanupRows(rows, clock) ==
    LET cutoff == clock - RetentionDays * SecondsPerDay
    IN  SelectSeq(rows, LAMBDA r : ~(r.timestamp < cutoff))

\* update_baseline(metric_name, context, stats): upsert of the one row of
\* the pair; an exception inside is logged and swallowed (lines 335-336)
UpdateBaselineRow(old, stats, write_fails) ==
    IF write_fails THEN old ELSE <<stats>>

\* get_all_baselines as _load_baselines_from_db reads it into the cache
LoadBaselinesFromDb(table, load_raises) ==
    IF load_raises THEN NoBaselines ELSE [p \in Pairs |-> table[p]]

(***************************************************************************)
(* Baselines: Analyzer.update_baselines, get_baseline                      *)
(***************************************************************************)
MinSamples == 10

StdDevFloor == 1

BaselineUpdateInterval == 3600

\* float(np.mean(arr)), rounded down to a hundredth
Mean(values) == SumSeq(values) \div Len(values)

\* float(np.std(arr)): the population standard deviation,
\* sqrt(mean(abs(x - x.mean())**2)), rounded down to a hundredth
StdDev(values) ==
    LET m == Mean(values)
        sq == [i \in 1..Len(values) |-> (values[i] - m) * (values[i] - m)]
    IN  ISqrt(SumSeq(sq) \div Len(values))

\* lines 107-108 left out: the computed std_dev is used as it is
FloorStdDevMissing(std_dev) == std_dev

\* if stats["std_dev"] < 0.01: stats["std_dev"] = 0.01
FloorStdDev(std_dev) == IF std_dev < StdDevFloor THEN StdDevFloor ELSE std_dev

\* lines 97-108: the stats dict of one pair
ComputeStats(values) ==
    [ mean |-> Mean(values),
      std_dev |-> FloorStdDev(StdDev(values)),
      min |-> MinSeq(values),
      max |-> MaxSeq(values),
      count |-> Len(values) ]

\* the test of line 94 off by one: len(values) < 9
NotEnoughDataOffByOne(values) == Len(values) < MinSamples - 1

\* if len(values) < 10: continue
NotEnoughData(values) == Len(values) < MinSamples

\* the body of the loop with the stale entry dropped when data is short
RefreshCacheEntryDropsStale(old, values, query_raises, write_fails) ==
    IF query_raises THEN old
    ELSE IF NotEnoughData(values) THEN <<>>
    ELSE <<ComputeStats(values)>>

\* the body of the loop if a failed write of the row raised out of
\* update_baseline: line 112 would not be reached
RefreshCacheEntryWriteRaises(old, values, query_raises, write_fails) ==
    IF query_raises THEN old
    ELSE IF NotEnoughData(values) THEN old
    ELSE IF write_fails THEN old
    ELSE <<ComputeStats(values)>>

\* lines 90-116 for one (metric, context), as seen in the cache: an exception
\* of the history query or too few values leave the entry as it is; a failed
\* write of the row is swallowed by update_baseline, so line 112 still runs
RefreshCacheEntry(old, values, query_raises, write_fails) ==
    IF query_raises THEN old
    ELSE IF NotEnoughData(values) THEN old
    ELSE <<ComputeStats(values)>>

\* lines 90-116 for one (metric, context), as seen in the baselines table
RefreshStoreEntry(old, values, query_raises, write_fails) ==
    IF query_raises THEN old
    ELSE IF NotEnoughData(values) THEN old
    ELSE UpdateBaselineRow(old, ComputeStats(values), write_fails)

\* lines 78-80: the call returns at once
UpdateSkipped(force, clock) ==
    /\ ~force
    /\ last_baseline_update # None
    /\ clock - last_baseline_update < BaselineUpdateInterval

\* get_baseline(metric_name, context): <<>> for None
GetBaseline(metric_name, context) == baselines_cache[<<metric_name, context>>]

\* the values the history query returns for a pair at `clock`
HistoryValues(pair, clock) ==
    GetMetricValuesForContext(system_metrics, pair[1], pair[2],
                              BaselineHistoryDays, clock)

\* update_baselines if it rebuilt the cache from scratch on every refresh
\* (self._baselines_cache = {} before the loop)
UpdateBaselinesAtRebuild(force, clock, values, query_raises, write_fails) ==
    /\ IF UpdateSkipped(force, clock)
       THEN UNCHANGED <<baselines_cache, baselines, last_baseline_update>>
       ELSE /\ baselines_cache' =
                  [p \in Pairs |->
                      RefreshCacheEntry(<<>>, values[p],
                                        p \in query_raises, p \in write_fails)]
            /\ baselines' =
                  [p \in Pairs |->
                      RefreshStoreEntry(baselines[p], values[p],
                                        p \in query_raises, p \in write_fails)]
            /\ last_baseline_update' = clock
    /\ last_call' = [ op |-> "update_baselines",
                      ran |-> ~UpdateSkipped(force, clock),
                      query_raises |-> query_raises,
                      write_fails |-> write_fails ]
    /\ UNCHANGED <<system_metrics, memory_history, swap_history>>

\* update_baselines(force) with the clock reading `clock`; values[p] is
\* what the history query returns for pair p when it does not raise,
\* query_raises and write_fails are the pairs for which the history query
\* raises and for which the store's write fails
UpdateBaselinesAt(force, clock, values, query_raises, write_fails) ==
    /\ IF UpdateSkipped(force, clock)
       THEN UNCHANGED <<baselines_cache, baselines, last_baseline_update>>
       ELSE /\ baselines_cache' =
                  [p \in Pairs |->
                      RefreshCacheEntry(baselines_cache[p], values[p],
                                        p \in query_raises, p \in write_fails)]
            /\ baselines' =
                  [p \in Pairs |->
                      RefreshStoreEntry(baselines[p], values[p],
                                        p \in query_raises, p \in write_fails)]
            /\ last_baseline_update' = clock
    /\ last_call' = [ op |-> "update_baselines",
                      ran |-> ~UpdateSkipped(force, clock),
                      query_raises |-> query_raises,
                      write_fails |-> write_fails ]
    /\ UNCHANGED <<system_metrics, memory_history, swap_history>>

(***************************************************************************)
(* Trend detection: Analyzer._detect_trends and the two detectors.         *)
(* memory_used and swap_used are counted in whole MB, bucket averages in   *)
(* hundredths of a MB.                                                     *)
(***************************************************************************)
MemoryHistoryMaxAge == 7200

SwapHistoryMaxAge == 1800

LeakMinPoints == 60

BucketCount == 12

BucketDuration == 600

LeakMinBuckets == 6

LeakMinComparisons == 5

LeakMinMbPerHour == 50

LeakHighMbPerHour == 100

SwapMinPoints == 20

SwapDeltaMb == 100

SwapMinComparisons == 10

\* _trim_history(history, max_age) with datetime.now() reading `clock`:
\* entries older than the cutoff are popped from the front only
RECURSIVE TrimHistory(_, _, _)
TrimHistory(history, max_age, clock) ==
    IF history # <<>> /\ Head(history)[1] < clock - max_age
    THEN TrimHistory(Tail(history), max_age, clock)
    ELSE history

\* int(x) of a quotient: rounds toward zero
TruncDiv(a, b) == IF a >= 0 THEN a \div b ELSE 0 - ((0 - a) \div b)

\* the bucket if line 278 did not reverse the index: 0 = newest
BucketIndexNewestFirst(ts, clock) ==
    Min2(BucketCount - 1, TruncDiv(clock - ts, BucketDuration))

\* lines 276-278: the bucket (0 = oldest) of an entry stamped ts
BucketIndex(ts, clock) ==
    BucketCount - 1 - Min2(BucketCount - 1, TruncDiv(clock - ts, BucketDuration))

\* lines 273-280: the values of bucket b, in buffer order
BucketValues(history, b, clock) ==
    LET inb == SelectSeq(history, LAMBDA e : BucketIndex(e[1], clock) = b)
    IN  [i \in 1..Len(inb) |-> inb[i][2]]

\* lines 283-286: np.mean of every non-empty bucket, oldest first
RECURSIVE BucketAverages(_, _, _)
BucketAverages(history, b, clock) ==
    IF b >= BucketCount THEN <<>>
    ELSE LET vals == BucketValues(history, b, clock)
         IN  (IF vals = <<>> THEN <<>>
              ELSE << (SumSeq(vals) * 100) \div Len(vals) >>)
             \o BucketAverages(history, b + 1, clock)

\* the count if line 294 compared with >=
GrowthCountNonStrict(averages) ==
    Cardinality({i \in 1..(Len(averages) - 1) : averages[i + 1] >= averages[i]})

\* lines 292-295: the adjacent pairs of averages that rise
GrowthCount(averages) ==
    Cardinality({i \in 1..(Len(averages) - 1) : averages[i + 1] > averages[i]})

TrendAnomaly(timestamp, anomaly_type, severity, metric_name, metric_value, baseline_mean) ==
    [ timestamp |-> timestamp,
      anomaly_type |-> anomaly_type,
      severity |-> severity,
      metric_name |-> metric_name,
      metric_value |-> metric_value,
      baseline_mean |-> baseline_mean,
      baseline_stddev |-> 0,
      z_score |-> 0 ]

\* _detect_memory_leak(timestamp) on the buffer `history`, its datetime.now()
\* reading `clock`: <<>> for None.  growth_mb_per_hour is
\* (last - first) * 3600 / (len(averages) * 600) = (last - first) * 6 / len
DetectMemoryLeak(history, timestamp, clock) ==
    IF Len(history) < LeakMinPoints THEN <<>>
    ELSE LET averages == BucketAverages(history, 0, clock)
             n == Len(averages)
         IN  IF n < LeakMinBuckets THEN <<>>
             ELSE IF n - 1 < LeakMinComparisons THEN <<>>
             ELSE LET growth == averages[n] - averages[1]
                      per_hour_num == growth * (SecondsPerHour \div BucketDuration)
                  IN  IF /\ GrowthCount(averages) * 4 >= (n - 1) * 3
                         /\ per_hour_num > LeakMinMbPerHour * 100 * n
                      THEN << TrendAnomaly(timestamp, "memory_leak",
                                  IF per_hour_num > LeakHighMbPerHour * 100 * n
                                  THEN "high" ELSE "medium",
                                  "memory_used", averages[n], averages[1]) >>
                      ELSE <<>>

\* _detect_swap_thrashing if line 352 compared with >=
DetectSwapThrashingAtLeast(history, timestamp) ==
    IF Len(history) < SwapMinPoints THEN <<>>
    ELSE LET swap_changes ==
                 Cardinality({i \in 2..Len(history) :
                     Abs(history[i][2] - history[i - 1][2]) > SwapDeltaMb})
             total_samples == Len(history) - 1
         IN  IF total_samples < SwapMinComparisons THEN <<>>
             ELSE IF swap_changes * 100 >= 15 * total_samples
             THEN << TrendAnomaly(timestamp, "swap_thrashing", "critical",
                                  "swap_used", history[Len(history)][2], 0) >>
             ELSE <<>>

\* _detect_swap_thrashing(timestamp) on the buffer `history`: <<>> for None
DetectSwapThrashing(history, timestamp) ==
    IF Len(history) < SwapMinPoints THEN <<>>
    ELSE LET swap_changes ==
                 Cardinality({i \in 2..Len(history) :
                     Abs(history[i][2] - history[i - 1][2]) > SwapDeltaMb})
             total_samples == Len(history) - 1
         IN  IF total_samples < SwapMinComparisons THEN <<>>
             ELSE IF swap_changes * 100 > 15 * total_samples
             THEN << TrendAnomaly(timestamp, "swap_thrashing", "critical",
                                  "swap_used", history[Len(history)][2], 0) >>
             ELSE <<>>

\* lines 231-239: a buffer after the sample's field is appended and the
\* buffer trimmed; a sample without the field leaves the buffer alone
BufferAfter(history, timestamp, field, max_age, clock) ==
    IF field # None
    THEN TrimHistory(Append(history, <<timestamp, field>>), max_age, clock)
    ELSE history

(***************************************************************************)
(* Anomaly detection: Analyzer.analyze                                     *)
(***************************************************************************)
\* the loop of lines 138-149 if a missing value or an absent baseline ended
\* it (break where the code has continue)
RECURSIVE ZscoreAnomaliesBreak(_, _, _, _)
ZscoreAnomaliesBreak(i, timestamp, system_metrics_arg, context) ==
    IF i > Len(MONITORED_METRICS) THEN <<>>
    ELSE LET metric == MONITORED_METRICS[i]
             value == system_metrics_arg[metric]
             baseline == GetBaseline(metric, context)
         IN  IF value = None \/ baseline = <<>> THEN <<>>
             ELSE CheckZscore(timestamp, metric, value, baseline[1],
                              context, severity_levels)
                  \o ZscoreAnomaliesBreak(i + 1, timestamp, system_metrics_arg, context)

\* lines 138-149: the z-score anomalies of metrics number i and later
RECURSIVE ZscoreAnomalies(_, _, _, _)
ZscoreAnomalies(i, timestamp, system_metrics_arg, context) ==
    IF i > Len(MONITORED_METRICS) THEN <<>>
    ELSE LET metric == MONITORED_METRICS[i]
             value == system_metrics_arg[metric]
             baseline == GetBaseline(metric, context)
             found == IF value = None THEN <<>>
                      ELSE IF baseline = <<>> THEN <<>>
                      ELSE CheckZscore(timestamp, metric, value, baseline[1],
                                       context, severity_levels)
         IN  found \o ZscoreAnomalies(i + 1, timestamp, system_metrics_arg, context)

\* analyze if the detector remembered a trend it had reported: a trend
\* anomaly is left out when the buffer met its condition before this sample
AnalyzeAtRisingEdge(timestamp, system_metrics_arg, clock1, clock2, clock3) ==
    LET context == GetTimeContext(timestamp)
        mem == BufferAfter(memory_history, timestamp, system_metrics_arg.memory_used,
                           MemoryHistoryMaxAge, clock1)
        swp == BufferAfter(swap_history, timestamp, system_metrics_arg.swap_used,
                           SwapHistoryMaxAge, clock2)
        anomalies == ZscoreAnomalies(1, timestamp, system_metrics_arg, context)
                     \o (IF DetectMemoryLeak(memory_history, timestamp, clock3) # <<>>
                         THEN <<>> ELSE DetectMemoryLeak(mem, timestamp, clock3))
                     \o (IF DetectSwapThrashing(swap_history, timestamp) # <<>>
                         THEN <<>> ELSE DetectSwapThrashing(swp, timestamp))
    IN  /\ memory_history' = mem
        /\ swap_history' = swp
        /\ last_call' = [ op |-> "analyze", timestamp |-> timestamp,
                          system_metrics |-> system_metrics_arg,
                          clocks |-> <<clock1, clock2, clock3>>,
                          returned |-> anomalies ]
        /\ UNCHANGED <<baselines_cache, last_baseline_update, system_metrics, baselines>>

\* analyze(timestamp, system_metrics); clock1, clock2 and clock3 are what
\* datetime.now() reads in the two _trim_history calls and in
\* _detect_memory_leak
AnalyzeAt(timestamp, system_metrics_arg, clock1, clock2, clock3) ==
    LET context == GetTimeContext(timestamp)
        mem == BufferAfter(memory_history, timestamp, system_metrics_arg.memory_used,
                           MemoryHistoryMaxAge, clock1)
        swp == BufferAfter(swap_history, timestamp, system_metrics_arg.swap_used,
                           SwapHistoryMaxAge, clock2)
        anomalies == ZscoreAnomalies(1, timestamp, system_metrics_arg, context)
                     \o DetectMemoryLeak(mem, timestamp, clock3)
                     \o DetectSwapThrashing(swp, timestamp)
    IN  /\ memory_history' = mem
        /\ swap_history' = swp
        /\ last_call' = [ op |-> "analyze", timestamp |-> timestamp,
                          system_metrics |-> system_metrics_arg,
                          clocks |-> <<clock1, clock2, clock3>>,
                          returned |-> anomalies ]
        /\ UNCHANGED <<baselines_cache, last_baseline_update, system_metrics, baselines>>

(***************************************************************************)
(* The analyzer and its store under a bounded environment                  *)
(***************************************************************************)
MaxTicks == 2

MaxStored == 1

\* the clock starts on the second Monday at 08:00:30
StartTime == 7 * SecondsPerDay + 8 * SecondsPerHour + 30

\* the clock advances by half an hour or by a day
TimeSteps == {SecondsPerHour \div 2, SecondsPerDay}

MetricsRow(timestamp, cpu, mem, swap) ==
    [ timestamp |-> timestamp, cpu_percent |-> cpu,
      memory_percent |-> mem, swap_percent |-> swap ]

\* ten rows of the week before: five of Tuesday 08:00:00-08:00:20, four of
\* Friday 08:00:00-08:00:15 with the swap reading missing, and one of
\* Friday 12:00:00; nine of them are weekday mornings
EarlierRows ==
    [i \in 1..5 |-> MetricsRow(SecondsPerDay + 8 * SecondsPerHour + 5 * (i - 1),
                               4000, 5000, 1000)]
    \o
    [i \in 1..4 |-> MetricsRow(4 * SecondsPerDay + 8 * SecondsPerHour + 5 * (i - 1),
                               6000, 5000, None)]
    \o
    << MetricsRow(4 * SecondsPerDay + 12 * SecondsPerHour, 9000, 7000, 1000) >>

\* the system_metrics table at the start: the rows of earlier runs
InitTables == {EarlierRows}

Sample(cpu, mem, swap) ==
    [ cpu_percent |-> cpu, memory_percent |-> mem, swap_percent |-> swap,
      memory_used |-> None, swap_used |-> None ]

\* the samples the collector stores
StoredSamples == {Sample(6000, 5000, 1000)}

\* the samples handed to analyze
AnalyzeSamples ==
    { Sample(5000, 5000, None), Sample(6500, 5002, 1000),
      Sample(7000, 5001, None), Sample(8000, None, 1000),
      Sample(None, 4998, None) }

\* what may go wrong in one update_baselines call: nothing, the history
\* query of one pair raises, or the write of one pair's row fails
FaultyPair == <<"cpu_percent", "weekday_morning">>

Faults == { [query_raises |-> {}, write_fails |-> {}],
            [query_raises |-> {FaultyPair}, write_fails |-> {}],
            [query_raises |-> {}, write_fails |-> {FaultyPair}] }

Init ==
    /\ TreeIdle
    /\ RefreshIdle
    /\ RcIdle
    /\ LoopIdle
    /\ RecIdle
    /\ severity_levels = DefaultSeverityLevels
    /\ probe = <<>>
    /\ now = StartTime
    /\ ticks = 0
    /\ stored = 0
    /\ system_metrics \in InitTables
    /\ baselines = NoBaselines
    /\ baselines_cache = NoBaselines
    /\ last_baseline_update = None
    /\ memory_history = <<>>
    /\ swap_history = <<>>
    /\ last_call = [op |-> "none"]

\* time passes between calls
Tick ==
    /\ ticks < MaxTicks
    /\ \E d \in TimeSteps : now' = now + d
    /\ ticks' = ticks + 1
    /\ last_call' = [op |-> "tick"]
    /\ UNCHANGED <<stored, dbVars, analyzerVars>>
    /\ UNCHANGED <<treeVars, sevVars, refreshVars, rcVars, loopVars, recVars>>

\* DatabaseManager.store_system_metrics(timestamp, data), timestamp the
\* current time; an exception is logged and nothing is stored
StoreSystemMetrics ==
    /\ \E data \in StoredSamples, store_fails \in BOOLEAN :
          LET rows == StoreSystemMetricsRows(system_metrics, now, data)
          IN  /\ stored < MaxStored
              /\ stored' = stored + 1
              /\ system_metrics' = IF store_fails THEN system_metrics ELSE rows
              /\ last_call' = [op |-> "store_system_metrics", failed |-> store_fails]
    /\ UNCHANGED <<now, ticks, baselines, analyzerVars>>
    /\ UNCHANGED <<treeVars, sevVars, refreshVars, rcVars, loopVars, recVars>>

\* Analyzer.analyze(timestamp, system_metrics) on a sample just collected
Analyze ==
    /\ \E data \in AnalyzeSamples : AnalyzeAt(now, data, now, now, now)
    /\ UNCHANGED <<now, ticks, stored>>
    /\ UNCHANGED <<treeVars, sevVars, refreshVars, rcVars, loopVars, recVars>>

\* Analyzer.update_baselines(force)
UpdateBaselines ==
    /\ LET values == [p \in Pairs |-> HistoryValues(p, now)]
       IN  \E force \in BOOLEAN, fault \in Faults :
               UpdateBaselinesAt(force, now, values, fault.query_raises,
                                 fault.write_fails)
    /\ UNCHANGED <<now, ticks, stored>>
    /\ UNCHANGED <<treeVars, sevVars, refreshVars, rcVars, loopVars, recVars>>

\* DatabaseManager.cleanup_old_data(); an exception is logged and nothing
\* is deleted
CleanupOldData ==
    /\ \E cleanup_fails \in BOOLEAN :
          /\ system_metrics' = IF cleanup_fails THEN system_metrics
                               ELSE CleanupRows(system_metrics, now)
          /\ last_call' = [op |-> "cleanup_old_data", failed |-> cleanup_fails]
    /\ UNCHANGED <<now, ticks, stored, baselines, analyzerVars>>
    /\ UNCHANGED <<treeVars, sevVars, refreshVars, rcVars, loopVars, recVars>>

\* Analyzer.__init__ on the same database (the monitor is started again):
\* lines 38-50, with _load_baselines_from_db swallowing a failed read
Restart ==
    /\ \E load_raises \in BOOLEAN :
          /\ baselines_cache' = LoadBaselinesFromDb(baselines, load_raises)
          /\ last_call' = [op |-> "init", load_raised |-> load_raises]
    /\ last_baseline_update' = None
    /\ memory_history' = <<>>
    /\ swap_history' = <<>>
    /\ UNCHANGED <<now, ticks, stored, dbVars>>
    /\ UNCHANGED <<treeVars, sevVars, refreshVars, rcVars, loopVars, recVars>>

Next ==
    \/ Tick
    \/ StoreSystemMetrics
    \/ Analyze
    \/ UpdateBaselines
    \/ CleanupOldData
    \/ Restart

Spec == Init /\ [][Next]_vars

(***************************************************************************)
(* Process tree: RootCauseAnalyzer._build_process_tree                     *)
(***************************************************************************)
MaxProcs == 3

\* pids a snapshot may hold; ppids range over these, 0, None and one pid
\* that no record of the snapshot has
SnapshotPids == 1..MaxProcs

AbsentPid == MaxProcs + 1

PpidValues == SnapshotPids \cup {0, None, AbsentPid}

ProcRecords == [pid : SnapshotPids, ppid : PpidValues]

\* snapshots: non-empty lists of process records with distinct pids
Snapshots ==
    {s \in UNION {[1..n -> ProcRecords] : n \in 1..MaxProcs} :
        \A i, j \in 1..Len(s) : i # j => s[i].pid # s[j].pid}

\* proc_map = {p["pid"]: p for p in current_processes}; a later record wins
ProcMapHas(procs, pid) == \E i \in 1..Len(procs) : procs[i].pid = pid

ProcMapGet(procs, pid) ==
    LET last == CHOOSE i \in 1..Len(procs) :
                    /\ procs[i].pid = pid
                    /\ \A j \in 1..Len(procs) : procs[j].pid = pid => j <= i
    IN  procs[last]

\* Python truthiness of a pid: None and 0 are falsy
Truthy(pid) == pid # None /\ pid # 0

\* while current_pid and current_pid not in visited
LoopGuard(pid, seen) == Truthy(pid) /\ pid \notin seen

\* if current_pid == 0 or current_pid == current_pid: break
BreakAfterParent(ppid) == ppid = 0 \/ ppid = ppid

TreeInit ==
    /\ SevIdle
    /\ MainIdle
    /\ RefreshIdle
    /\ RcIdle
    /\ LoopIdle
    /\ RecIdle
    /\ current_processes \in Snapshots
    /\ target_pid \in SnapshotPids \cup {AbsentPid, 0}
    /\ tree = <<>>
    /\ visited = {}
    /\ current_pid = None
    /\ tpc = "start"
    /\ iters = 0
    /\ tree_result = <<>>

\* lines 181-187: build proc_map, tree = [], visited = set(), current_pid = target_pid
BuildTreeStart ==
    /\ tpc = "start"
    /\ tree' = <<>>
    /\ visited' = {}
    /\ current_pid' = target_pid
    /\ tpc' = "loop"
    /\ UNCHANGED <<current_processes, target_pid, iters, tree_result>>
    /\ UNCHANGED <<sevVars, mainVars, refreshVars, rcVars, loopVars, recVars>>

\* The variant of the loop that a missing cycle guard and a correct break
\* would give: while current_pid: ...; if current_pid == 0: break
BuildTreeLoopNoGuard ==
    /\ tpc = "loop"
    /\ iters <= 2 * MaxProcs + 2
    /\ IF Truthy(current_pid)
       THEN /\ visited' = visited \cup {current_pid}
            /\ iters' = iters + 1
            /\ IF ProcMapHas(current_processes, current_pid)
               THEN LET proc == ProcMapGet(current_processes, current_pid)
                    IN  /\ tree' = Append(tree, [pid |-> current_pid])
                        /\ current_pid' = proc.ppid
                        /\ tpc' = IF proc.ppid = 0 THEN "reverse" ELSE "loop"
               ELSE /\ tpc' = "reverse"
                    /\ UNCHANGED <<tree, current_pid>>
       ELSE /\ tpc' = "reverse"
            /\ UNCHANGED <<tree, visited, current_pid, iters>>
    /\ UNCHANGED <<current_processes, target_pid, tree_result>>
    /\ UNCHANGED <<sevVars, mainVars, refreshVars, rcVars, loopVars, recVars>>

\* lines 189-203: one evaluation of the while condition and, when it holds,
\* one execution of the loop body
BuildTreeLoop ==
    /\ tpc = "loop"
    /\ IF LoopGuard(current_pid, visited)
       THEN /\ visited' = visited \cup {current_pid}
            /\ iters' = iters + 1
            /\ IF ProcMapHas(current_processes, current_pid)
               THEN LET proc == ProcMapGet(current_processes, current_pid)
                    IN  /\ tree' = Append(tree, [pid |-> current_pid])
                        /\ current_pid' = proc.ppid
                        /\ tpc' = IF BreakAfterParent(proc.ppid)
                                  THEN "reverse" ELSE "loop"
               ELSE /\ tpc' = "reverse"
                    /\ UNCHANGED <<tree, current_pid>>
       ELSE /\ tpc' = "reverse"
            /\ UNCHANGED <<tree, visited, current_pid, iters>>
    /\ UNCHANGED <<current_processes, target_pid, tree_result>>
    /\ UNCHANGED <<sevVars, mainVars, refreshVars, rcVars, loopVars, recVars>>

\* lines 205-206: tree.reverse(); return tree
BuildTreeReturn ==
    /\ tpc = "reverse"
    /\ tree_result' = Reverse(tree)
    /\ tpc' = "done"
    /\ UNCHANGED <<current_processes, target_pid, tree, visited, current_pid, iters>>
    /\ UNCHANGED <<sevVars, mainVars, refreshVars, rcVars, loopVars, recVars>>

TreeNext == BuildTreeStart \/ BuildTreeLoop \/ BuildTreeReturn

SpecTree == TreeInit /\ [][TreeNext]_vars /\ WF_vars(TreeNext)

(***************************************************************************)
(* Analyzer.update_baselines line by line: what the cache holds while a    *)
(* refresh is in progress                                                  *)
(***************************************************************************)
\* the pairs in the order of the two loops of lines 88-89
PairSeq ==
    [i \in 1..(Len(MONITORED_METRICS) * Len(Contexts)) |->
        << MONITORED_METRICS[((i - 1) \div Len(Contexts)) + 1],
           Contexts[((i - 1) % Len(Contexts)) + 1] >>]

\* lines 98-104: the stats dict as first built, std_dev not yet floored
RawStats(values) ==
    [ mean |-> Mean(values),
      std_dev |-> StdDev(values),
      min |-> MinSeq(values),
      max |-> MaxSeq(values),
      count |-> Len(values) ]

\* lines 107-108 on the local dict
FlooredStats(stats) == [stats EXCEPT !.std_dev = FloorStdDev(@)]

\* the entry if line 112 updated the dict already in the cache in place and
\* carried over only mean and std_dev
AssignCacheEntryInPlace(old, stats) ==
    IF old = <<>> THEN <<stats>>
    ELSE <<[old[1] EXCEPT !.mean = stats.mean, !.std_dev = stats.std_dev]>>

\* line 112: the key is bound to the finished local dict
AssignCacheEntry(old, stats) == <<stats>>

\* the values of an earlier refresh of cpu_percent and memory_percent on
\* weekday mornings
OlderCpuValues == [i \in 1..10 |-> 3000 + 200 * i]

OlderMemoryValues == [i \in 1..10 |-> 5000]

\* the baselines table an earlier refresh has left
EarlierBaselines ==
    [p \in Pairs |->
        IF p = <<"cpu_percent", "weekday_morning">>
        THEN <<ComputeStats(OlderCpuValues)>>
        ELSE IF p = <<"memory_percent", "weekday_morning">>
        THEN <<ComputeStats(OlderMemoryValues)>>
        ELSE <<>>]

\* the rows of earlier runs and one row of this Monday 08:00:00
RefreshRows(cpu, mem) ==
    StoreSystemMetricsRows(EarlierRows, StartTime - 30, Sample(cpu, mem, 1000))

RefreshTables == {EarlierRows, RefreshRows(6000, 5000), RefreshRows(9000, 5400)}

RefreshInit ==
    /\ TreeIdle
    /\ SevIdle
    /\ RcIdle
    /\ LoopIdle
    /\ RecIdle
    /\ now = StartTime
    /\ ticks = 0
    /\ stored = 0
    /\ system_metrics \in RefreshTables
    /\ \E loaded \in BOOLEAN :
          /\ baselines = IF loaded THEN EarlierBaselines ELSE NoBaselines
          /\ baselines_cache = baselines
          /\ queried = IF loaded THEN {OlderCpuValues, OlderMemoryValues} ELSE {}
    /\ last_baseline_update = None
    /\ memory_history = <<>>
    /\ swap_history = <<>>
    /\ last_call = [op |-> "none"]
    /\ rpc = "idle"
    /\ rpair = 0
    /\ rnow = None
    /\ rvalues = <<>>
    /\ rstats = <<>>

\* `continue`, the end of the loop body, or the except clause: on to the
\* next pair, or to line 118 after the last one
RefreshNextPair ==
    /\ rvalues' = <<>>
    /\ rstats' = <<>>
    /\ IF rpair = Len(PairSeq)
       THEN rpc' = "finish" /\ rpair' = rpair
       ELSE rpc' = "query" /\ rpair' = rpair + 1

\* lines 77-80: the call starts, or returns at once
RefreshStart ==
    /\ rpc = "idle"
    /\ \E force \in BOOLEAN :
          IF UpdateSkipped(force, now)
          THEN UNCHANGED <<rpc, rpair, rnow>>
          ELSE rpc' = "query" /\ rpair' = 1 /\ rnow' = now
    /\ UNCHANGED <<rvalues, rstats, queried>>
    /\ UNCHANGED <<treeVars, sevVars, mainVars, rcVars, loopVars, recVars>>

\* lines 91-95: the history query of the pair, which may raise
RefreshQuery ==
    /\ rpc = "query"
    /\ \E query_raises \in BOOLEAN :
          LET values == HistoryValues(PairSeq[rpair], now)
          IN  IF query_raises \/ NotEnoughData(values)
              THEN RefreshNextPair /\ UNCHANGED queried
              ELSE /\ rvalues' = values
                   /\ queried' = queried \cup {values}
                   /\ rpc' = "stats"
                   /\ UNCHANGED <<rpair, rstats>>
    /\ UNCHANGED rnow
    /\ UNCHANGED <<treeVars, sevVars, mainVars, rcVars, loopVars, recVars>>

\* lines 97-104
RefreshStats ==
    /\ rpc = "stats"
    /\ rstats' = <<RawStats(rvalues)>>
    /\ rpc' = "floor"
    /\ UNCHANGED <<rpair, rnow, rvalues, queried>>
    /\ UNCHANGED <<treeVars, sevVars, mainVars, rcVars, loopVars, recVars>>

\* lines 107-108
RefreshFloor ==
    /\ rpc = "floor"
    /\ rstats' = <<FlooredStats(rstats[1])>>
    /\ rpc' = "write"
    /\ UNCHANGED <<rpair, rnow, rvalues, queried>>
    /\ UNCHANGED <<treeVars, sevVars, mainVars, rcVars, loopVars, recVars>>

\* line 111: the row is written, or the write fails inside update_baseline
RefreshWrite ==
    /\ rpc = "write"
    /\ \E write_fails \in BOOLEAN :
          baselines' = [baselines EXCEPT ![PairSeq[rpair]] =
                           UpdateBaselineRow(@, rstats[1], write_fails)]
    /\ rpc' = "assign"
    /\ UNCHANGED <<rpair, rnow, rvalues, rstats, queried>>
    /\ UNCHANGED <<now, ticks, stored, system_metrics, analyzerVars, last_call>>
    /\ UNCHANGED <<treeVars, sevVars, rcVars, loopVars, recVars>>

\* line 112
RefreshAssign ==
    /\ rpc = "assign"
    /\ baselines_cache' = [baselines_cache EXCEPT ![PairSeq[rpair]] =
                              AssignCacheEntry(@, rstats[1])]
    /\ RefreshNextPair
    /\ UNCHANGED <<rnow, queried>>
    /\ UNCHANGED <<now, ticks, stored, dbVars, last_baseline_update,
                   memory_history, swap_history, last_call>>
    /\ UNCHANGED <<treeVars, sevVars, rcVars, loopVars, recVars>>

\* line 118
RefreshFinish ==
    /\ rpc = "finish"
    /\ last_baseline_update' = rnow
    /\ rpc' = "idle"
    /\ rpair' = 0
    /\ rnow' = None
    /\ UNCHANGED <<rvalues, rstats, queried>>
    /\ UNCHANGED <<now, ticks, stored, dbVars, baselines_cache,
                   memory_history, swap_history, last_call>>
    /\ UNCHANGED <<treeVars, sevVars, rcVars, loopVars, recVars>>

\* time passes between two calls
RefreshTick == rpc = "idle" /\ Tick

RefreshNext ==
    \/ RefreshStart
    \/ RefreshQuery
    \/ RefreshStats
    \/ RefreshFloor
    \/ RefreshWrite
    \/ RefreshAssign
    \/ RefreshFinish
    \/ RefreshTick

SpecRefresh == RefreshInit /\ [][RefreshNext]_vars

(***************************************************************************)
(* Root cause analysis: RootCauseAnalyzer.analyze and its steps            *)
(* (src/src/root_cause.py).  None is <<>> for timeline, process_tree and   *)
(* io_analysis, a value v is <<v>>.                                        *)
(***************************************************************************)
ContributionScan == 20

TopContributors == 10

TopIoProcesses == 10

PatternScan == 5

SmallReadBytes == 32 * 1024

LargeReadBytes == 1024 * 1024

\* x or 0
OrZero(x) == IF x = None THEN 0 ELSE x

\* list.sort(key=..., reverse=True) on `items` with the keys given beside
\* them: descending, equal keys keep their order
StableSortDesc(items, keys) ==
    LET n == Len(items)
        Pos(i) == 1 + Cardinality({j \in 1..n :
                          keys[j] > keys[i] \/ (keys[j] = keys[i] /\ j < i)})
    IN  [k \in 1..n |-> items[CHOOSE i \in 1..n : Pos(i) = k]]

FirstN(items, n) == SubSeq(items, 1, Min2(n, Len(items)))

\* "cpu" in anomaly_type, "memory" in anomaly_type, "io" in anomaly_type or
\* "swap" in anomaly_type, on the anomaly types of the program
CpuTypes == {"cpu_spike", "cpu_drop"}

MemoryTypes == {"memory_pressure", "memory_drop", "memory_leak"}

IoTypes == {"io_bottleneck", "swap_thrashing"}

\* lines 116-123
SortKey(anomaly_type) ==
    IF anomaly_type \in CpuTypes THEN "cpu_percent"
    ELSE IF anomaly_type \in MemoryTypes THEN "memory_rss"
    ELSE IF anomaly_type \in IoTypes \cup {"swap_pressure", "swap_drop"} THEN "memory_rss"
    ELSE "cpu_percent"

\* m.get(metric_name) on a row of system_metrics
RowValue(row, metric_name) ==
    IF metric_name \in DOMAIN row THEN row[metric_name] ELSE None

\* _reconstruct_timeline(timestamp, metric_name); `metrics` is what
\* db.get_system_metrics returns for the minute around the anomaly, unless
\* the query raises
ReconstructTimeline(metric_name, metrics, query_raises) ==
    IF metric_name = "" THEN <<>>
    ELSE IF query_raises THEN <<>>
    ELSE IF metrics = <<>> THEN <<>>
    ELSE LET kept == SelectSeq(metrics, LAMBDA m : RowValue(m, metric_name) # None)
         IN  << [i \in 1..Len(kept) |->
                    [ timestamp |-> kept[i].timestamp,
                      value |-> RowValue(kept[i], metric_name) ]] >>

\* the record if line 140 took the delta against zero for every process
ContributorDeltaFromZero(proc, prev_processes, sort_key) ==
    LET is_new == ~ProcMapHas(prev_processes, proc.pid)
        current_val == OrZero(proc[sort_key])
        prev_val == IF is_new THEN 0
                    ELSE OrZero(ProcMapGet(prev_processes, proc.pid)[sort_key])
    IN  [ pid |-> proc.pid,
          name |-> proc.name,
          current_value |-> current_val,
          previous_value |-> prev_val,
          delta |-> current_val,
          is_new_process |-> is_new,
          metric |-> sort_key ]

\* lines 134-152: the record of one process of the current snapshot
Contributor(proc, prev_processes, sort_key) ==
    LET is_new == ~ProcMapHas(prev_processes, proc.pid)
        current_val == OrZero(proc[sort_key])
        prev_val == IF is_new THEN 0
                    ELSE OrZero(ProcMapGet(prev_processes, proc.pid)[sort_key])
    IN  [ pid |-> proc.pid,
          name |-> proc.name,
          current_value |-> current_val,
          previous_value |-> prev_val,
          delta |-> current_val - prev_val,
          is_new_process |-> is_new,
          metric |-> sort_key ]

\* the ranking if it cut the list to ten before sorting it
AnalyzeProcessContributionsCutFirst(anomaly_type, current_processes_arg, prev_processes) ==
    LET sort_key == SortKey(anomaly_type)
        scanned == FirstN(FirstN(current_processes_arg, ContributionScan), TopContributors)
        contributors == [i \in 1..Len(scanned) |->
                            Contributor(scanned[i], prev_processes, sort_key)]
        keys == [i \in 1..Len(contributors) |-> Abs(contributors[i].current_value)]
    IN  StableSortDesc(contributors, keys)

\* _analyze_process_contributions; prev_processes is what
\* db.get_process_metrics_at returns for 30 seconds earlier
AnalyzeProcessContributions(anomaly_type, current_processes_arg, prev_processes) ==
    LET sort_key == SortKey(anomaly_type)
        scanned == FirstN(current_processes_arg, ContributionScan)
        contributors == [i \in 1..Len(scanned) |->
                            Contributor(scanned[i], prev_processes, sort_key)]
        keys == [i \in 1..Len(contributors) |-> Abs(contributors[i].current_value)]
    IN  FirstN(StableSortDesc(contributors, keys), TopContributors)

\* the loop of _build_process_tree from current_pid on, `acc` the list so far
RECURSIVE TreeWalk(_, _, _, _)
TreeWalk(procs, pid, seen, acc) ==
    IF ~LoopGuard(pid, seen) THEN acc
    ELSE IF ~ProcMapHas(procs, pid) THEN acc
    ELSE LET ppid == ProcMapGet(procs, pid).ppid
             grown == Append(acc, [pid |-> pid])
         IN  IF BreakAfterParent(ppid) THEN grown
             ELSE TreeWalk(procs, ppid, seen \cup {pid}, grown)

\* _build_process_tree(target_pid, current_processes)
BuildProcessTree(pid, procs) == Reverse(TreeWalk(procs, pid, {}, <<>>))

\* lines 244-272: the pattern of one of the top I/O processes
IoPattern(proc) ==
    LET small == proc.io_read_bytes < SmallReadBytes * proc.io_read_count
        large == proc.io_read_bytes > LargeReadBytes * proc.io_read_count
    IN  [ pid |-> proc.pid,
          name |-> proc.name,
          classification |-> IF small THEN "small random reads (inefficient)"
                             ELSE IF large THEN "large sequential reads (efficient)"
                             ELSE "mixed I/O pattern",
          likely_issue |-> IF ~small THEN <<>>
                           ELSE IF proc.name \in {"postgres", "mysql", "mongod", "mariadb"}
                           THEN <<"Missing database index (table scan)">>
                           ELSE IF proc.name \in {"chrome", "firefox", "edge"}
                           THEN <<"Browser cache thrashing">>
                           ELSE <<"Fragmented I/O pattern">> ]

\* _analyze_io(timestamp, current_processes)
AnalyzeIo(procs) ==
    IF procs = <<>> THEN <<>>
    ELSE LET with_io == SelectSeq(procs, LAMBDA q :
                            q.io_read_bytes # None /\ q.io_write_bytes # None)
             io_procs == [i \in 1..Len(with_io) |->
                            [ pid |-> with_io[i].pid,
                              name |-> with_io[i].name,
                              io_read_bytes |-> with_io[i].io_read_bytes,
                              io_write_bytes |-> with_io[i].io_write_bytes,
                              io_read_count |-> with_io[i].io_read_count,
                              total_io |-> with_io[i].io_read_bytes
                                           + with_io[i].io_write_bytes ]]
             sorted == StableSortDesc(io_procs,
                           [i \in 1..Len(io_procs) |-> io_procs[i].total_io])
             reading == SelectSeq(FirstN(sorted, PatternScan),
                                  LAMBDA q : OrZero(q.io_read_count) > 0)
         IN  << [ top_io_processes |-> FirstN(sorted, TopIoProcesses),
                  patterns |-> [i \in 1..Len(reading) |-> IoPattern(reading[i])] ] >>

\* _generate_summary(anomaly, root_cause): the parts of the text
GenerateSummary(anomaly_arg, root_cause) ==
    LET contributors == root_cause.top_contributors
        proc_tree == root_cause.process_tree
        io_info == root_cause.io_analysis
        issues == IF io_info = <<>> THEN <<>>
                  ELSE SelectSeq(io_info[1].patterns, LAMBDA q : q.likely_issue # <<>>)
    IN  [ kind |-> "summary",
          severity |-> anomaly_arg.severity,
          description |-> anomaly_arg.description,
          contributors |-> [i \in 1..Len(FirstN(contributors, 5)) |-> contributors[i].pid],
          top3_total |-> IF contributors # <<>>
                            /\ anomaly_arg.anomaly_type \in CpuTypes \cup MemoryTypes
                         THEN << SumSeq([i \in 1..Len(FirstN(contributors, 3)) |->
                                            contributors[i].current_value]) >>
                         ELSE <<>>,
          chain |-> IF proc_tree # <<>> /\ Len(proc_tree[1]) > 1 THEN proc_tree[1] ELSE <<>>,
          io_issues |-> [i \in 1..Len(issues) |-> issues[i].pid] ]

\* root_cause as line 29-35 set it up
EmptyRootCause ==
    [ timeline |-> <<>>, top_contributors |-> <<>>, process_tree |-> <<>>,
      io_analysis |-> <<>>, summary |-> [kind |-> "empty"] ]

\* lines 69-71: what the except clause leaves
FailedSummary == [kind |-> "failed"]

\* lines 29-71: the root_cause dict analyze builds.  metrics and
\* timeline_raises are the result of db.get_system_metrics, prev_processes and
\* processes_raises that of db.get_process_metrics_at, which is called only
\* for a non-empty snapshot and is not guarded inside its step
RootCauseOf(anomaly_arg, current_processes_arg, metrics, timeline_raises, prev_processes, processes_raises) ==
    LET anomaly_type == anomaly_arg.anomaly_type
        step1 == [EmptyRootCause EXCEPT !.timeline =
                     ReconstructTimeline(anomaly_arg.metric_name, metrics, timeline_raises)]
    IN  IF current_processes_arg # <<>> /\ processes_raises
        THEN [step1 EXCEPT !.summary = FailedSummary]
        ELSE LET contributors ==
                     IF current_processes_arg # <<>>
                     THEN AnalyzeProcessContributions(anomaly_type,
                              current_processes_arg, prev_processes)
                     ELSE <<>>
                 proc_tree == IF contributors # <<>> /\ Truthy(contributors[1].pid)
                         THEN << BuildProcessTree(contributors[1].pid,
                                                  current_processes_arg) >>
                         ELSE <<>>
                 io == IF anomaly_type \in IoTypes
                       THEN AnalyzeIo(current_processes_arg) ELSE <<>>
                 step4 == [step1 EXCEPT !.top_contributors = contributors,
                                        !.process_tree = proc_tree,
                                        !.io_analysis = io]
             IN  [step4 EXCEPT !.summary = GenerateSummary(anomaly_arg, step4)]

\* the snapshot if line 173 sorted the list it was given instead of the
\* list of contributor records
SnapshotSortedInPlace(current_processes_arg, anomaly_type) ==
    StableSortDesc(current_processes_arg,
        [i \in 1..Len(current_processes_arg) |->
            Abs(OrZero(current_processes_arg[i][SortKey(anomaly_type)]))])

\* the caller's list after analyze: line 133 iterates over a slice (a
\* copy), lines 173 and 239 sort lists built inside, the records are only
\* read
SnapshotAfterAnalyze(current_processes_arg, anomaly_type) == current_processes_arg

\* a process record of the collector
Proc(pid, ppid, name, cpu, rss, read_bytes, write_bytes, read_count) ==
    [ pid |-> pid, ppid |-> ppid, name |-> name, cpu_percent |-> cpu,
      memory_rss |-> rss, io_read_bytes |-> read_bytes,
      io_write_bytes |-> write_bytes, io_read_count |-> read_count ]

\* 22 workers in the collector's order (cpu descending), their memory in
\* another order and the largest memory on the last two
ManyWorkers ==
    [i \in 1..22 |->
        Proc(100 + i, 1, "worker", 2300 - 100 * i,
             IF i > 20 THEN 5000 + i ELSE 10 + 10 * ((7 * i) % 20),
             None, None, None)]

\* the snapshots handed to analyze: none, a database with its child and
\* init, the idle process (pid 0) on top, one self-parented process
\* without cpu or memory readings, and 22 workers
RcSnapshots ==
    { <<>>, ManyWorkers,
      << Proc(10, 1, "postgres", 9000, 300, 16384, 4096, 4),
         Proc(11, 10, "python", 500, 900, None, None, None),
         Proc(1, 0, "init", 100, 50, 4194304, 0, 2) >>,
      << Proc(0, 0, "idle", 9900, 0, None, None, None),
         Proc(12, 1, "chrome", 800, 700, 8192, 8192, 0) >>,
      << Proc(5, 5, "stress", None, None, 65536, 0, 1) >> }

\* what process_metrics holds for 30 seconds before the anomaly
RcPrevSnapshots ==
    { <<>>,
      << Proc(10, 1, "postgres", 2000, 250, 0, 0, 0),
         Proc(1, 0, "init", 100, 50, 0, 0, 0) >> }

\* what system_metrics holds for the minute around the anomaly
RcMetrics ==
    { <<>>,
      << MetricsRow(StartTime - 5, 8000, 5000, None),
         MetricsRow(StartTime, 9000, 5001, 1000) >> }

\* an anomaly dict as the analyzer returns it: lines 181-192 and 316-327
\* with the description and root_cause: None
WithDescription(a, description) ==
    [description |-> description, root_cause |-> <<>>] @@ a

RcAnomalies ==
    { WithDescription(CheckZscore(StartTime, "cpu_percent", 9000,
                          [mean |-> 5000, std_dev |-> 1000], "weekday_morning",
                          DefaultSeverityLevels)[1], "cpu"),
      WithDescription(CheckZscore(StartTime, "memory_percent", 5002,
                          [mean |-> 5000, std_dev |-> 1], "weekday_morning",
                          DefaultSeverityLevels)[1], "memory"),
      WithDescription(TrendAnomaly(StartTime, "memory_leak", "medium",
                          "memory_used", 211000, 200000), "leak"),
      WithDescription(TrendAnomaly(StartTime, "swap_thrashing", "critical",
                          "swap_used", 900, 0), "thrash") }

RcInit ==
    /\ TreeIdle
    /\ SevIdle
    /\ MainIdle
    /\ RefreshIdle
    /\ RcIdle
    /\ LoopIdle
    /\ RecIdle

\* monitor.py:102-105: analyze returned an anomaly, the cycle's snapshot is
\* `processes`
RcDetect ==
    /\ rc_call.op # "detect"
    /\ \E a \in RcAnomalies, snapshot \in RcSnapshots :
          /\ anomaly' = a
          /\ processes' = snapshot
    /\ rc_call' = [op |-> "detect"]
    /\ UNCHANGED <<treeVars, sevVars, mainVars, refreshVars, loopVars, recVars>>

\* RootCauseAnalyzer.analyze(anomaly, processes)
RcAnalyze ==
    /\ rc_call.op = "detect"
    /\ \E metrics \in RcMetrics, timeline_raises \in BOOLEAN,
          prev_processes \in RcPrevSnapshots, processes_raises \in BOOLEAN :
          /\ anomaly' = [anomaly EXCEPT !.root_cause =
                            << RootCauseOf(anomaly, processes, metrics, timeline_raises,
                                           prev_processes, processes_raises) >>]
          /\ rc_call' = [ op |-> "analyze",
                          metrics |-> metrics,
                          prev_processes |-> prev_processes,
                          timeline_raised |-> timeline_raises,
                          processes_raised |-> processes_raises /\ processes # <<>> ]
    /\ processes' = SnapshotAfterAnalyze(processes, anomaly.anomaly_type)
    /\ UNCHANGED <<treeVars, sevVars, mainVars, refreshVars, loopVars, recVars>>

RcNext == RcDetect \/ RcAnalyze

SpecRootCause == RcInit /\ [][RcNext]_vars

(***************************************************************************)
(* Trend detection: the history buffers over a run of analyze calls        *)
(***************************************************************************)
\* collection.interval_seconds: the seconds between two cycles
CollectionInterval == 5

\* a memory buffer whose entries fill the last Len(values) ten-minute
\* buckets before StartTime, per_bucket entries in each, all entries of a
\* bucket holding the bucket's value (MB); oldest first
Bucketed(per_bucket, values) ==
    LET first_bucket == BucketCount - Len(values)
        step == BucketDuration \div (per_bucket + 1)
    IN  [i \in 1..(per_bucket * Len(values)) |->
            LET b == first_bucket + (i - 1) \div per_bucket
                j == ((i - 1) % per_bucket) + 1
            IN  << StartTime - ((BucketCount - 1 - b) * BucketDuration
                                + BucketDuration - step * j),
                   values[b - first_bucket + 1] >>]

\* +10 MB per bucket over two hours
Rising10 == Bucketed(5, [b \in 1..12 |-> 1100 + 10 * b])

\* +20 MB per bucket over two hours
Rising20 == Bucketed(5, [b \in 1..12 |-> 980 + 20 * b])

\* 100 MB over twelve buckets: 50 MB/hour and no more
RisingAtFifty ==
    Bucketed(5, <<1120, 1125, 1130, 1140, 1150, 1160, 1170, 1180, 1190, 1200, 1210, 1220>>)

\* -10 MB per bucket
Falling10 == Bucketed(5, [b \in 1..12 |-> 1340 - 10 * b])

\* nine buckets, six of the eight steps rise
RisingThreeQuarters ==
    Bucketed(7, <<800, 900, 900, 1000, 1000, 1100, 1150, 1200, 1220>>)

\* one entry short of sixty
RisingShort == Tail(Rising20)

\* sixty entries in five buckets
RisingFiveBuckets == Bucketed(12, <<900, 1000, 1100, 1200, 1220>>)

\* sixty entries of the same value two minutes apart, the oldest five seconds
\* short of two hours old
FlatMemory ==
    [i \in 1..60 |-> << StartTime - (MemoryHistoryMaxAge - CollectionInterval)
                                  + 120 * (i - 1), 1220 >>]

\* a swap buffer of the values given (MB), 85 seconds apart, the oldest five
\* seconds short of half an hour old
SwapBuffer(values) ==
    [i \in 1..Len(values) |->
        << StartTime - (SwapHistoryMaxAge - CollectionInterval) + 85 * (i - 1),
           values[i] >>]

SwapStable == SwapBuffer([i \in 1..20 |-> 500])

\* 21 entries, 3 of the 20 steps larger than 100 MB
SwapAtFifteen == SwapBuffer([i \in 1..21 |-> IF i \in {2, 4} \/ i > 4 THEN 700 ELSE 500])

\* 21 entries, 4 of the 20 steps larger than 100 MB
SwapThrashing == SwapBuffer([i \in 1..21 |-> IF i \in {2, 4} THEN 700 ELSE 500])

\* 19 entries, every step 200 MB
SwapUnderTwenty == SwapBuffer([i \in 1..19 |-> IF i % 2 = 0 THEN 700 ELSE 500])

\* 20 entries, every step 100 MB and no more
SwapDeltaHundred == SwapBuffer([i \in 1..20 |-> IF i % 2 = 0 THEN 600 ELSE 500])

\* the buffers of a run so far: <<_memory_history, _swap_history>>
TrendBuffers ==
    { <<m, SwapStable>> : m \in { Rising10, Rising20, RisingAtFifty, Falling10,
                                  RisingThreeQuarters, RisingShort,
                                  RisingFiveBuckets, FlatMemory } }
    \cup
    { <<FlatMemory, w>> : w \in { SwapAtFifteen, SwapThrashing, SwapUnderTwenty,
                                  SwapDeltaHundred } }

\* a sample with the two fields of the trend checks; a failed psutil call
\* leaves its field out
TrendSample(memory_used, swap_used) ==
    [ Sample(None, None, None) EXCEPT !.memory_used = memory_used,
                                        !.swap_used = swap_used ]

TrendSamples ==
    { TrendSample(None, None), TrendSample(1220, 500), TrendSample(1094, 500),
      TrendSample(1220, 700), TrendSample(None, 500), TrendSample(1346, None) }

\* the seconds between two analyze calls: the next cycle, ten minutes, two
\* hours
TrendSteps == {CollectionInterval, BucketDuration, MemoryHistoryMaxAge}

TrendInit ==
    /\ TreeIdle
    /\ SevIdle
    /\ RefreshIdle
    /\ RcIdle
    /\ LoopIdle
    /\ RecIdle
    /\ now = StartTime
    /\ ticks = 0
    /\ stored = 0
    /\ system_metrics = <<>>
    /\ baselines = NoBaselines
    /\ baselines_cache = NoBaselines
    /\ last_baseline_update = None
    /\ \E b \in TrendBuffers :
          /\ memory_history = b[1]
          /\ swap_history = b[2]
    /\ last_call = [op |-> "none"]

\* the samples that follow the first one
MaxTrendTicks == 1

\* time passes until the next sample
TrendTick ==
    /\ ticks < MaxTrendTicks
    /\ \E d \in TrendSteps : now' = now + d
    /\ ticks' = ticks + 1
    /\ last_call' = [op |-> "tick"]
    /\ UNCHANGED <<stored, dbVars, analyzerVars>>
    /\ UNCHANGED <<treeVars, sevVars, refreshVars, rcVars, loopVars, recVars>>

\* Analyzer.analyze(timestamp, system_metrics) once per sample; the clock
\* may pass a second boundary between two of the call's datetime.now()
TrendAnalyze ==
    /\ last_call.op # "analyze"
    /\ \E data \in TrendSamples :
          \E clock1 \in {now, now + 1} :
             \E clock2 \in {clock1, now + 1} :
                \E clock3 \in {clock2, now + 1} :
                   AnalyzeAt(now, data, clock1, clock2, clock3)
    /\ UNCHANGED <<now, ticks, stored>>
    /\ UNCHANGED <<treeVars, sevVars, refreshVars, rcVars, loopVars, recVars>>

TrendNext == TrendTick \/ TrendAnalyze

SpecTrend == TrendInit /\ [][TrendNext]_vars

(***************************************************************************)
(* Analyzer.analyze with baselines and filled buffers together             *)
(***************************************************************************)
OlderSwapValues == [i \in 1..10 |-> 1000 + 100 * i]

\* a cache holding the weekday-morning baselines of the metrics given
MorningBaselines(metrics) ==
    [p \in Pairs |->
        IF p[2] # "weekday_morning" \/ p[1] \notin metrics THEN <<>>
        ELSE IF p[1] = "cpu_percent" THEN <<ComputeStats(OlderCpuValues)>>
        ELSE IF p[1] = "memory_percent" THEN <<ComputeStats(OlderMemoryValues)>>
        ELSE <<ComputeStats(OlderSwapValues)>>]

OrderCaches ==
    { MorningBaselines({"cpu_percent", "memory_percent", "swap_percent"}),
      MorningBaselines({"cpu_percent", "swap_percent"}),
      MorningBaselines({}) }

\* <<_memory_history, _swap_history>>
OrderBuffers ==
    { <<Rising10, SwapThrashing>>, <<FlatMemory, SwapStable>>, << <<>>, <<>> >> }

\* samples with and without each monitored metric and the trend fields
OrderSamples ==
    { [ cpu_percent |-> cpu, memory_percent |-> mem, swap_percent |-> swap,
        memory_used |-> used[1], swap_used |-> used[2] ] :
        cpu \in {None, 9000, 4100}, mem \in {None, 5002}, swap \in {None, 9000},
        used \in { <<None, None>>, <<1220, 500>> } }

OrderInit ==
    /\ TreeIdle
    /\ SevIdle
    /\ RefreshIdle
    /\ RcIdle
    /\ LoopIdle
    /\ RecIdle
    /\ now = StartTime
    /\ ticks = 0
    /\ stored = 0
    /\ system_metrics = <<>>
    /\ baselines_cache \in OrderCaches
    /\ baselines = baselines_cache
    /\ last_baseline_update = None
    /\ \E b \in OrderBuffers :
          /\ memory_history = b[1]
          /\ swap_history = b[2]
    /\ last_call = [op |-> "none"]

\* Analyzer.analyze(timestamp, system_metrics) on the cycle's sample
OrderAnalyze ==
    /\ last_call.op # "analyze"
    /\ \E data \in OrderSamples : AnalyzeAt(now, data, now, now, now)
    /\ UNCHANGED <<now, ticks, stored>>
    /\ UNCHANGED <<treeVars, sevVars, refreshVars, rcVars, loopVars, recVars>>

OrderNext == OrderAnalyze

SpecOrder == OrderInit /\ [][OrderNext]_vars

(***************************************************************************)
(* utils.get_time_context over every day of the week and hour of the day   *)
(***************************************************************************)
\* the moments get_time_context is asked about: half past every hour of a
\* week that starts on a Monday
ContextTimes ==
    { d * SecondsPerDay + h * SecondsPerHour + SecondsPerHour \div 2 :
        d \in 0..6, h \in 0..23 }

ContextInit ==
    /\ TreeIdle
    /\ SevIdle
    /\ RefreshIdle
    /\ RcIdle
    /\ LoopIdle
    /\ RecIdle
    /\ now \in ContextTimes
    /\ ticks = 0
    /\ stored = 0
    /\ system_metrics = <<>>
    /\ baselines = NoBaselines
    /\ baselines_cache = NoBaselines
    /\ last_baseline_update = None
    /\ memory_history = <<>>
    /\ swap_history = <<>>
    /\ last_call = [op |-> "none"]

\* get_time_context(dt) for the current time
ContextProbe ==
    /\ last_call.op = "none"
    /\ last_call' = [ op |-> "get_time_context", dt |-> now,
                      returned |-> GetTimeContext(now) ]
    /\ UNCHANGED <<now, ticks, stored, dbVars, analyzerVars>>
    /\ UNCHANGED <<treeVars, sevVars, refreshVars, rcVars, loopVars, recVars>>

ContextNext == ContextProbe

SpecContext == ContextInit /\ [][ContextNext]_vars

(***************************************************************************)
(* The hourly refresh of the monitoring loop (src/monitor.py:115-119)      *)
(***************************************************************************)
\* cycles of the loop in one run
MaxCadenceCycles == 3

\* the seconds from the end of step 6 of one cycle to the clock reading of
\* step 6 of a later one
CadenceSteps ==
    { CollectionInterval, BaselineUpdateInterval - CollectionInterval,
      BaselineUpdateInterval - 1, BaselineUpdateInterval }

\* PerformanceMonitor.__init__ has run (lines 66-69) on a database with the
\* rows of earlier runs; the Analyzer is new
CadenceInit ==
    /\ TreeIdle
    /\ SevIdle
    /\ RefreshIdle
    /\ RcIdle
    /\ RecIdle
    /\ running = TRUE
    /\ lpc = "cycle"
    /\ handler_ran = FALSE
    /\ new_cycles = 0
    /\ shutdowns = 0
    /\ db_closed = FALSE
    /\ cycle_count = 0
    /\ stdout_ok = TRUE
    /\ monitor_baseline_update = StartTime
    /\ now = StartTime
    /\ ticks = 0
    /\ stored = 0
    /\ system_metrics = EarlierRows
    /\ baselines = NoBaselines
    /\ baselines_cache = NoBaselines
    /\ last_baseline_update = None
    /\ memory_history = <<>>
    /\ swap_history = <<>>
    /\ last_call = [op |-> "none"]

\* step 6 of a cycle whose clock reading is less than an hour after the
\* monitor's stamp: line 117 is false
CadenceQuiet ==
    /\ ticks < MaxCadenceCycles
    /\ \E d \in CadenceSteps :
          /\ (now + d) - monitor_baseline_update < BaselineUpdateInterval
          /\ now' = now + d
    /\ ticks' = ticks + 1
    /\ last_call' = [op |-> "cycle"]
    /\ UNCHANGED <<stored, dbVars, analyzerVars>>
    /\ UNCHANGED <<treeVars, sevVars, refreshVars, rcVars, loopVars, recVars>>

\* step 6 of a cycle whose clock reading loop_now is an hour or more after
\* the monitor's stamp: lines 118-119.  update_baselines reads the clock
\* itself, `delay` seconds later
CadenceRefresh ==
    /\ ticks < MaxCadenceCycles
    /\ \E d \in CadenceSteps, delay \in {0, 1} :
          LET loop_now == now + d
              values == [p \in Pairs |-> HistoryValues(p, loop_now + delay)]
          IN  /\ loop_now - monitor_baseline_update >= BaselineUpdateInterval
              /\ UpdateBaselinesAt(FALSE, loop_now + delay, values, {}, {})
              /\ monitor_baseline_update' = loop_now
              /\ now' = loop_now + delay
    /\ ticks' = ticks + 1
    /\ UNCHANGED <<stored, running, lpc, handler_ran, new_cycles, shutdowns, db_closed>>
    /\ UNCHANGED <<cycle_count, stdout_ok>>
    /\ UNCHANGED <<treeVars, sevVars, refreshVars, rcVars, recVars>>

CadenceNext == CadenceQuiet \/ CadenceRefresh

SpecCadence == CadenceInit /\ [][CadenceNext]_vars

(***************************************************************************)
(* Recommender.generate_recommendations and its cooldown                   *)
(* (src/src/recommender.py:30-65, src/src/storage.py:284-310, 472-482)     *)
(***************************************************************************)
\* recommendation_cooldown_hours
CooldownHours == 24

\* rows of the recommendations table in one run
MaxRecommendations == 4

\* the recommendation_type of the five heuristics, in the order of `checks`
RecommendationTypes ==
    << "database_index", "memory_upgrade", "chrome_tab_management",
       "docker_resource_limits", "build_optimization" >>

\* has_recent_recommendation(recommendation_type, cooldown_hours) at clock
\* reading `clock`: COUNT(*) of the rows of the type with timestamp > since
HasRecentRecommendation(rows, recommendation_type, cooldown_hours, clock) ==
    LET since == clock - cooldown_hours * SecondsPerHour
    IN  \E i \in 1..Len(rows) :
            /\ rows[i].recommendation_type = recommendation_type
            /\ rows[i].timestamp > since

\* store_recommendation(rec_data): the row gets rec_data["timestamp"]; an
\* exception is logged and nothing is stored.  stored_at is no column of the
\* table: it keeps the clock reading of the INSERT for the properties
StoreRecommendation(rows, rec, clock, store_fails) ==
    IF store_fails THEN rows
    ELSE Append(rows, [ timestamp |-> rec.timestamp,
                        recommendation_type |-> rec.recommendation_type,
                        stored_at |-> clock ])

\* the loop of lines 49-63 over the heuristics from position i on: `fired`
\* are the types whose heuristic returns a recommendation; acc.rows is the
\* table and acc.returned the list built so far
RECURSIVE RunChecks(_, _, _, _, _, _)
RunChecks(i, fired, timestamp, clock, store_fails, acc) ==
    IF i > Len(RecommendationTypes) THEN acc
    ELSE LET rec_type == RecommendationTypes[i]
             rec == [timestamp |-> timestamp, recommendation_type |-> rec_type]
         IN  IF rec_type \in fired
                /\ ~HasRecentRecommendation(acc.rows, rec_type, CooldownHours, clock)
             THEN RunChecks(i + 1, fired, timestamp, clock, store_fails,
                            [ rows |-> StoreRecommendation(acc.rows, rec, clock, store_fails),
                              returned |-> Append(acc.returned, rec_type) ])
             ELSE RunChecks(i + 1, fired, timestamp, clock, store_fails, acc)

\* the seconds between collect_all's timestamp (src/src/collector.py:55) and
\* the clock reading of has_recent_recommendation: collect_system_metrics
\* blocks one second in cpu_percent(interval=1) (line 74)
CollectLags == {0, 1, 2}

\* what the heuristics return in one cycle
FiredSets == { {}, {"memory_upgrade"}, {"memory_upgrade", "build_optimization"} }

\* the seconds between two calls
RecommendSteps ==
    { CollectionInterval, CooldownHours * SecondsPerHour - CollectionInterval,
      CooldownHours * SecondsPerHour - 1, CooldownHours * SecondsPerHour }

\* the types with a row stored less than the cooldown before `clock`
StoredWithinCooldown(rows, clock) ==
    { rows[i].recommendation_type : i \in
        { j \in 1..Len(rows) : rows[j].stored_at > clock - CooldownHours * SecondsPerHour } }

RecommendInit ==
    /\ TreeIdle
    /\ SevIdle
    /\ RefreshIdle
    /\ RcIdle
    /\ LoopIdle
    /\ now = StartTime
    /\ ticks = 0
    /\ stored = 0
    /\ system_metrics = <<>>
    /\ baselines = NoBaselines
    /\ baselines_cache = NoBaselines
    /\ last_baseline_update = None
    /\ memory_history = <<>>
    /\ swap_history = <<>>
    /\ recommendations = <<>>
    /\ last_call = [op |-> "none"]

\* time passes between two cycles
RecommendTick ==
    /\ ticks < MaxTicks
    /\ \E d \in RecommendSteps : now' = now + d
    /\ ticks' = ticks + 1
    /\ last_call' = [op |-> "tick"]
    /\ UNCHANGED <<stored, dbVars, analyzerVars>>
    /\ UNCHANGED <<treeVars, sevVars, refreshVars, rcVars, loopVars, recVars>>

\* Recommender.generate_recommendations(timestamp, system_metrics,
\* processes) as step 5 of a cycle calls it, timestamp the cycle's
\* collect_all timestamp
GenerateRecommendations ==
    /\ Len(recommendations) + 2 <= MaxRecommendations
    /\ \E lag \in CollectLags, fired \in FiredSets, store_fails \in BOOLEAN :
          LET result == RunChecks(1, fired, now - lag, now, store_fails,
                                  [rows |-> recommendations, returned |-> <<>>])
          IN  /\ recommendations' = result.rows
              /\ last_call' = [ op |-> "generate_recommendations",
                                timestamp |-> now - lag,
                                fired |-> fired,
                                store_failed |-> store_fails,
                                recent_before |-> StoredWithinCooldown(recommendations, now),
                                returned |-> result.returned ]
    /\ UNCHANGED <<now, ticks, stored, dbVars, analyzerVars>>
    /\ UNCHANGED <<treeVars, sevVars, refreshVars, rcVars, loopVars>>

RecommendNext == RecommendTick \/ GenerateRecommendations

SpecRecommend == RecommendInit /\ [][RecommendNext]_vars

(***************************************************************************)
(* PerformanceMonitor.run, _signal_handler and _shutdown                   *)
(* (src/monitor.py:73-141, 152-161)                                        *)
(***************************************************************************)
\* cycles of the loop in one run
MaxRunCycles == 3

\* the monitor has been constructed and run() has not been called
RunInit ==
    /\ TreeIdle
    /\ SevIdle
    /\ MainIdle
    /\ RefreshIdle
    /\ RcIdle
    /\ RecIdle
    /\ LoopIdle

\* the steps below leave everything but the loop's state and last_call alone
RunFrame ==
    /\ UNCHANGED <<now, ticks, stored, dbVars, analyzerVars>>
    /\ UNCHANGED <<treeVars, sevVars, refreshVars, rcVars, recVars>>
    /\ UNCHANGED monitor_baseline_update

\* lines 75-82: running = True, the banner, the two signal.signal calls.
\* The banner is printed before the try: if a print raises, run() is left
\* without entering the loop
RunStart ==
    /\ lpc = "start"
    /\ running' = TRUE
    /\ lpc' = IF stdout_ok THEN "top" ELSE "raised"
    /\ last_call' = [op |-> "run"]
    /\ UNCHANGED <<handler_ran, new_cycles, shutdowns, db_closed, cycle_count, stdout_ok>>
    /\ RunFrame

\* line 85: the test of `while self.running`; a true test starts a cycle
\* (lines 86-87), a false one leaves the loop for the finally clause
LoopTest ==
    /\ lpc = "top"
    /\ IF running
       THEN /\ cycle_count < MaxRunCycles
            /\ lpc' = "cycle"
            /\ cycle_count' = cycle_count + 1
            /\ new_cycles' = IF handler_ran THEN new_cycles + 1 ELSE new_cycles
            /\ last_call' = [op |-> "cycle"]
       ELSE /\ lpc' = "finally"
            /\ last_call' = [op |-> "exit", cause |-> "signal"]
            /\ UNCHANGED <<cycle_count, new_cycles>>
    /\ UNCHANGED <<running, handler_ran, shutdowns, db_closed, stdout_ok>>
    /\ RunFrame

\* lines 89-128: steps 1 to 8 of a cycle run to the end; display_dashboard
\* (line 123) prints, so the output has to work
CycleBody ==
    /\ lpc = "cycle"
    /\ stdout_ok
    /\ lpc' = "sleep"
    /\ UNCHANGED <<running, handler_ran, new_cycles, shutdowns, db_closed, cycle_count, stdout_ok>>
    /\ UNCHANGED last_call
    /\ RunFrame

\* lines 136-139: a KeyboardInterrupt or an Exception is raised in the cycle
\* (always by the print of display_dashboard when the output is broken) and
\* caught; the finally clause follows
CycleRaises ==
    /\ lpc = "cycle"
    /\ \E cause \in {"KeyboardInterrupt", "Exception"} :
          /\ ~stdout_ok => cause = "Exception"
          /\ last_call' = [op |-> "exit", cause |-> cause]
    /\ lpc' = "finally"
    /\ UNCHANGED <<running, handler_ran, new_cycles, shutdowns, db_closed, cycle_count, stdout_ok>>
    /\ RunFrame

\* lines 131-134: the sleep, skipped when running is false
Sleep ==
    /\ lpc = "sleep"
    /\ lpc' = "top"
    /\ UNCHANGED <<running, handler_ran, new_cycles, shutdowns, db_closed, cycle_count, stdout_ok>>
    /\ UNCHANGED last_call
    /\ RunFrame

\* _signal_handler(signum, frame), between any two steps once it is
\* registered: self.running = False
SignalHandler ==
    /\ lpc \in {"top", "cycle", "sleep", "finally", "summary", "close"}
    /\ ~handler_ran
    /\ running' = FALSE
    /\ handler_ran' = TRUE
    /\ UNCHANGED <<lpc, new_cycles, shutdowns, db_closed, cycle_count, stdout_ok>>
    /\ UNCHANGED last_call
    /\ RunFrame

\* the reader of the monitor's output goes away (a closed pipe or
\* terminal): every later print raises
OutputBreaks ==
    /\ lpc \in {"start", "top", "cycle", "sleep"}
    /\ stdout_ok
    /\ stdout_ok' = FALSE
    /\ UNCHANGED <<running, lpc, handler_ran, new_cycles, shutdowns, db_closed, cycle_count>>
    /\ UNCHANGED last_call
    /\ RunFrame

\* line 141 and line 158: the finally clause calls _shutdown, which sets
\* running to False
ShutdownEnter ==
    /\ lpc = "finally"
    /\ running' = FALSE
    /\ shutdowns' = shutdowns + 1
    /\ lpc' = "summary"
    /\ UNCHANGED <<handler_ran, new_cycles, db_closed, cycle_count, stdout_ok>>
    /\ UNCHANGED last_call
    /\ RunFrame

\* line 159: reporter.display_shutdown_summary() prints (reporter.py
\* 351-365) outside any try: an exception of a print leaves _shutdown and
\* run()
ShutdownSummary ==
    /\ lpc = "summary"
    /\ lpc' = IF stdout_ok THEN "close" ELSE "raised"
    /\ UNCHANGED <<running, handler_ran, new_cycles, shutdowns, db_closed, cycle_count, stdout_ok>>
    /\ UNCHANGED last_call
    /\ RunFrame

\* lines 160-161: self.db.close()
ShutdownClose ==
    /\ lpc = "close"
    /\ db_closed' = TRUE
    /\ lpc' = "done"
    /\ UNCHANGED <<running, handler_ran, new_cycles, shutdowns, cycle_count, stdout_ok>>
    /\ UNCHANGED last_call
    /\ RunFrame

\* the steps of run() itself
RunStep ==
    \/ RunStart
    \/ LoopTest
    \/ CycleBody
    \/ CycleRaises
    \/ Sleep
    \/ ShutdownEnter
    \/ ShutdownSummary
    \/ ShutdownClose

RunNext == RunStep \/ SignalHandler \/ OutputBreaks

\* the interpreter keeps executing run(); nothing forces a signal, an
\* exception or a broken output
SpecRun == RunInit /\ [][RunNext]_vars /\ WF_vars(RunStep)

(***************************************************************************)
(* Properties                                                              *)
(***************************************************************************)
PidsOf(nodes) == [i \in 1..Len(nodes) |-> nodes[i].pid]

\* the ancestor chain of pid, child first: follow ppid links through the
\* snapshot's index until the pid is 0 or None, has no record, or repeats
RECURSIVE AncestorChain(_, _, _)
AncestorChain(procs, pid, seen) ==
    IF ~Truthy(pid) \/ pid \in seen \/ ~ProcMapHas(procs, pid)
    THEN <<>>
    ELSE <<pid>> \o AncestorChain(procs, ProcMapGet(procs, pid).ppid, seen \cup {pid})

\* C1: the list _build_process_tree returns is the full ancestor chain of
\* the target pid, root first; in particular a target whose parent has a
\* record in the snapshot gives at least two nodes, the parent before the
\* child.
C1_FullAncestorChain ==
    (tpc = "done" /\ Truthy(target_pid))
        => PidsOf(tree_result) = Reverse(AncestorChain(current_processes, target_pid, {}))

\* C2: on every snapshot, cyclic ppid links and self-parents included,
\* _build_process_tree terminates (the loop body runs at most once per
\* record and once more, and the return is reached) and neither the list
\* under construction nor the returned chain holds a pid twice.
C2_TerminatesNoRepeat ==
    /\ [](/\ NoDup(PidsOf(tree))
          /\ NoDup(PidsOf(tree_result))
          /\ iters <= Len(current_processes) + 1)
    /\ <>(tpc = "done")

\* a finished walk that started inside a two-process ppid cycle
C2_CycleWalked ==
    /\ tpc = "done"
    /\ Len(tree_result) >= 1
    /\ \E i, j \in 1..Len(current_processes) :
          /\ i # j
          /\ current_processes[i].pid = target_pid
          /\ current_processes[i].ppid = current_processes[j].pid
          /\ current_processes[j].ppid = current_processes[i].pid

\* the tiers whose cutoff is <= |z| for z = (value - mean) / std_dev, decided
\* on the exact quotient
TiersReached(e, levels) ==
    {t \in Tiers : levels[t] * e.std_dev <= Abs(e.value - e.mean) * 100}

\* C3: for std_dev >= 0.01 the z-score path assigns the highest tier whose
\* cutoff is <= |z|, a |z| equal to a cutoff counting for that tier, and
\* "normal" when |z| is below the low cutoff; an anomaly it returns carries
\* that severity.
C3_SeverityIsHighestTier ==
    \A i \in 1..Len(probe) :
        LET e == probe[i]
            reached == TiersReached(e, severity_levels)
        IN  /\ e.std_dev >= StdDevFloor
            /\ reached = {} => e.severity = "normal"
            /\ reached # {} =>
                  /\ e.severity \in reached
                  /\ \A t \in reached : Rank(t) <= Rank(e.severity)
            /\ "low" \notin reached => e.severity = "normal"
            /\ e.anomaly # <<>> => e.anomaly[1].severity = e.severity

\* a |z| exactly on the high cutoff, classified high
C3_OnCutoff ==
    \E i \in 1..Len(probe) :
        /\ Abs(probe[i].value - probe[i].mean) * 100
              = severity_levels.high * probe[i].std_dev
        /\ probe[i].severity = "high"

\* C4: no anomaly that analyze returns from the z-score path has severity
\* "normal" or "low".
C4_NoLowZscoreAnomaly ==
    last_call.op = "analyze" =>
        \A i \in 1..Len(last_call.returned) :
            LET a == last_call.returned[i]
            IN  a.anomaly_type \notin {"memory_leak", "swap_thrashing"}
                    => a.severity \in {"medium", "high", "critical"}

\* an analyze call in which one metric classified low and was dropped while
\* another metric gave an anomaly
C4_LowDroppedOtherKept ==
    /\ last_call.op = "analyze"
    /\ Len(last_call.returned) >= 1
    /\ \E i \in 1..Len(MONITORED_METRICS) :
          LET metric == MONITORED_METRICS[i]
              value == last_call.system_metrics[metric]
              baseline == GetBaseline(metric, GetTimeContext(last_call.timestamp))
          IN  /\ value # None
              /\ baseline # <<>>
              /\ ClassifySeverity(Abs(ZScore(value, baseline[1].mean,
                                             baseline[1].std_dev)),
                                  severity_levels) = "low"
              /\ \A k \in 1..Len(last_call.returned) :
                    last_call.returned[k].metric_name # metric

\* C5: severity is monotonic in |z|: of two evaluations the one with the
\* smaller or equal |z| never gets the higher severity.
C5_SeverityMonotonic ==
    \A i, j \in 1..Len(probe) :
        (Abs(probe[i].value - probe[i].mean) * probe[j].std_dev
            <= Abs(probe[j].value - probe[j].mean) * probe[i].std_dev)
        => Rank(probe[i].severity) <= Rank(probe[j].severity)

\* two evaluations with |z| strictly apart and severities strictly apart
C5_TwoTiers ==
    /\ Len(probe) = 2
    /\ Abs(probe[1].value - probe[1].mean) * probe[2].std_dev
          < Abs(probe[2].value - probe[2].mean) * probe[1].std_dev
    /\ probe[1].std_dev # probe[2].std_dev
    /\ Rank(probe[1].severity) < Rank(probe[2].severity)

\* C6: an update_baselines call leaves the cache entry and the table row of
\* every pair whose history query gives fewer than 10 values as they were.
C6_ShortHistoryUntouched ==
    [][ last_call'.op = "update_baselines" =>
            \A p \in Pairs :
                Len(HistoryValues(p, now)) < MinSamples =>
                    /\ baselines_cache'[p] = baselines_cache[p]
                    /\ baselines'[p] = baselines[p] ]_vars

\* after a refresh that ran, a pair still has its baseline although its
\* history is now shorter than 10 values
C6_StaleKept ==
    /\ last_call.op = "update_baselines"
    /\ last_call.ran
    /\ \E p \in Pairs :
          /\ baselines_cache[p] # <<>>
          /\ baselines[p] # <<>>
          /\ Len(HistoryValues(p, now)) < MinSamples

\* C7: once get_baseline returns a baseline for a pair it returns one after
\* every later call on the same analyzer and store (update_baselines,
\* analyze, cleanup_old_data, storing a sample, time passing).
C7_BaselineNeverLost ==
    [][ last_call'.op # "init" =>
            \A p \in Pairs :
                GetBaseline(p[1], p[2]) # <<>> => baselines_cache'[p] # <<>> ]_vars

\* a cleanup has deleted rows and a pair with fewer than 10 values left
\* still has its baseline
C7_SurvivesCleanup ==
    /\ last_call.op = "cleanup_old_data"
    /\ Len(system_metrics) < Len(EarlierRows)
    /\ \E p \in Pairs :
          /\ GetBaseline(p[1], p[2]) # <<>>
          /\ Len(HistoryValues(p, now)) < MinSamples

\* the statistics of a list of values as the claim states them
ExpectedStats(values) ==
    LET n == Len(values)
        m == SumSeq(values) \div n
        var == SumSeq([i \in 1..n |-> (values[i] - m) * (values[i] - m)]) \div n
        sd == CHOOSE r \in 0..10000 : r * r <= var /\ var < (r + 1) * (r + 1)
    IN  [ mean |-> m,
          std_dev |-> IF sd < 1 THEN 1 ELSE sd,
          min |-> CHOOSE x \in SeqToSet(values) : \A y \in SeqToSet(values) : x <= y,
          max |-> CHOOSE x \in SeqToSet(values) : \A y \in SeqToSet(values) : x >= y,
          count |-> n ]

\* C8: right after an update_baselines call that ran, get_baseline returns,
\* for every pair with at least 10 values whose query did not raise, the
\* mean, floored std_dev, min, max and count of those values.
C8_RoundTrip ==
    (last_call.op = "update_baselines" /\ last_call.ran) =>
        \A p \in Pairs \ last_call.query_raises :
            LET values == HistoryValues(p, now)
            IN  Len(values) >= MinSamples
                    => GetBaseline(p[1], p[2]) = <<ExpectedStats(values)>>

\* a refresh ran and one pair's baseline was read back with a floored
\* std_dev, another's with a std_dev above the floor
C8_ReadBack ==
    /\ last_call.op = "update_baselines"
    /\ last_call.ran
    /\ \E p, q \in Pairs \ last_call.query_raises :
          /\ Len(HistoryValues(p, now)) >= MinSamples
          /\ Len(HistoryValues(q, now)) >= MinSamples
          /\ GetBaseline(p[1], p[2]) # <<>>
          /\ GetBaseline(q[1], q[2]) # <<>>
          /\ StdDev(HistoryValues(p, now)) < StdDevFloor
          /\ GetBaseline(p[1], p[2])[1].std_dev = StdDevFloor
          /\ GetBaseline(q[1], q[2])[1].std_dev > StdDevFloor

\* C9: every baseline in the cache, loaded at construction or written by a
\* refresh, has std_dev >= 0.01.
C9_StdDevFloored ==
    \A p \in Pairs :
        baselines_cache[p] # <<>> => baselines_cache[p][1].std_dev >= StdDevFloor

\* a new analyzer has loaded a baseline whose std_dev sits on the floor
C9_FlooredLoaded ==
    /\ last_call.op = "init"
    /\ ~last_call.load_raised
    /\ \E p \in Pairs :
          /\ baselines_cache[p] # <<>>
          /\ baselines_cache[p][1].std_dev = StdDevFloor

\* C10: every baseline in the cache, loaded at construction or written by a
\* refresh, was computed from at least 10 samples.
C10_CountAtLeastTen ==
    \A p \in Pairs :
        baselines_cache[p] # <<>> => baselines_cache[p][1].count >= MinSamples

\* analyze has computed a z-score from a baseline of exactly 10 samples
C10_TenSampleBaselineUsed ==
    /\ last_call.op = "analyze"
    /\ \E k \in 1..Len(last_call.returned) :
          LET a == last_call.returned[k]
              baseline == GetBaseline(a.metric_name,
                                      GetTimeContext(last_call.timestamp))
          IN  /\ baseline # <<>>
              /\ baseline[1].count = MinSamples
              /\ a.baseline_mean = baseline[1].mean

C12_NoTornBaseline ==
    \A p \in Pairs :
        GetBaseline(p[1], p[2]) # <<>> =>
            \E values \in queried : GetBaseline(p[1], p[2])[1] = ExpectedStats(values)

\* a refresh has computed new statistics for a pair and not yet assigned
\* them: the cache still shows the older baseline, which differs in its mean
C12_StaleWhilePending ==
    /\ rpc \in {"write", "assign"}
    /\ rstats # <<>>
    /\ GetBaseline(PairSeq[rpair][1], PairSeq[rpair][2]) # <<>>
    /\ GetBaseline(PairSeq[rpair][1], PairSeq[rpair][2])[1].mean # rstats[1].mean
    /\ GetBaseline(PairSeq[rpair][1], PairSeq[rpair][2])[1].count = rstats[1].count

\* C13: when a step inside RootCauseAnalyzer.analyze fails (the exception
\* reaches analyze's own handler), the returned root_cause has a summary
\* stating the failure and its timeline, top_contributors, process_tree and
\* io_analysis are all still at their initial values.
C13_FailureLeavesInitialFields ==
    (rc_call.op = "analyze" /\ rc_call.processes_raised) =>
        /\ anomaly.root_cause # <<>>
        /\ anomaly.root_cause[1].summary = FailedSummary
        /\ anomaly.root_cause[1].timeline = EmptyRootCause.timeline
        /\ anomaly.root_cause[1].top_contributors = EmptyRootCause.top_contributors
        /\ anomaly.root_cause[1].process_tree = EmptyRootCause.process_tree
        /\ anomaly.root_cause[1].io_analysis = EmptyRootCause.io_analysis

\* C14: a failed metric-history query or process-history query affects only
\* its own step: analyze still builds the normal summary, still runs the I/O
\* analysis when the anomaly type calls for it, and keeps the timeline when
\* the timeline step succeeded.
C14_FailureStaysInItsStep ==
    (rc_call.op = "analyze" /\ (rc_call.timeline_raised \/ rc_call.processes_raised)) =>
        /\ anomaly.root_cause[1].summary # FailedSummary
        /\ anomaly.root_cause[1].summary.kind = "summary"
        /\ (anomaly.anomaly_type \in IoTypes /\ processes # <<>>)
              => anomaly.root_cause[1].io_analysis = AnalyzeIo(processes)
        /\ ~rc_call.timeline_raised
              => anomaly.root_cause[1].timeline =
                    ReconstructTimeline(anomaly.metric_name, rc_call.metrics, FALSE)

\* C15: analyze leaves the process snapshot unchanged (same records, same
\* order, same values) and changes no field of the anomaly other than
\* root_cause, which is set after every call.
C15_AnalyzeFrame ==
    [][ rc_call'.op = "analyze" =>
            /\ processes' = processes
            /\ anomaly' = [anomaly EXCEPT !.root_cause = anomaly'.root_cause]
            /\ anomaly'.root_cause # <<>>
      ]_vars

\* analyze has ranked a snapshot of several processes in an order that is
\* not the snapshot's
C15_RankedOtherOrder ==
    /\ rc_call.op = "analyze"
    /\ Len(processes) >= 2
    /\ anomaly.root_cause[1].top_contributors # <<>>
    /\ anomaly.root_cause[1].top_contributors[1].pid # processes[1].pid

\* C16: after every analyze call, whether or not the sample carries
\* memory_used or swap_used, the memory buffer holds no entry older than two
\* hours and the swap buffer none older than thirty minutes, relative to the
\* clock of that call.
C16_PrunedOnEveryCall ==
    last_call.op = "analyze" =>
        /\ \A i \in 1..Len(memory_history) :
              memory_history[i][1] >= last_call.clocks[1] - MemoryHistoryMaxAge
        /\ \A i \in 1..Len(swap_history) :
              swap_history[i][1] >= last_call.clocks[2] - SwapHistoryMaxAge

\* the anomalies of one type among those a call returned
OfType(anomalies, anomaly_type) ==
    SelectSeq(anomalies, LAMBDA a : a.anomaly_type = anomaly_type)

\* C17: within one analyze call a single "now" serves the pruning of the
\* memory buffer, the pruning of the swap buffer and the assignment of memory
\* entries to leak buckets: the call's effect is that of one clock value.
C17_SingleNow ==
    [][ last_call'.op = "analyze" =>
            \E clock \in {last_call'.timestamp, last_call'.timestamp + 1} :
                /\ memory_history' =
                      BufferAfter(memory_history, last_call'.timestamp,
                                  last_call'.system_metrics.memory_used,
                                  MemoryHistoryMaxAge, clock)
                /\ swap_history' =
                      BufferAfter(swap_history, last_call'.timestamp,
                                  last_call'.system_metrics.swap_used,
                                  SwapHistoryMaxAge, clock)
                /\ OfType(last_call'.returned, "memory_leak") =
                      DetectMemoryLeak(memory_history', last_call'.timestamp, clock)
      ]_vars

\* the entries of `history` whose age at `clock` puts them in ten-minute
\* bucket b of twelve, bucket 11 the last ten minutes and bucket 0 everything
\* from 110 minutes on
InBucket(history, clock, b) ==
    SelectSeq(history, LAMBDA e :
        IF b = 0 THEN clock - e[1] >= 11 * 600
        ELSE /\ clock - e[1] >= (11 - b) * 600
             /\ clock - e[1] < (12 - b) * 600)

\* sum and number of the entries of each bucket
BucketTotals(history, clock) ==
    [b \in 0..11 |->
        LET inb == InBucket(history, clock, b)
        IN  [sum |-> SumSeq([i \in 1..Len(inb) |-> inb[i][2]]), count |-> Len(inb)]]

\* the non-empty buckets, oldest first
UsedBuckets(totals) ==
    SelectSeq([i \in 1..12 |-> totals[i - 1]], LAMBDA t : t.count > 0)

\* average of bucket b above average of bucket a, as exact fractions
AverageRises(a, b) == b.sum * a.count > a.sum * b.count

\* (avg_last - avg_first) * 3600 / (k * 600) > mb_per_hour, as exact
\* fractions, `used` the non-empty buckets
GrowthExceeds(used, mb_per_hour) ==
    LET k == Len(used)
    IN  (used[k].sum * used[1].count - used[1].sum * used[k].count) * (3600 \div 600)
            > mb_per_hour * k * used[1].count * used[k].count

LeakConditions(history, used) ==
    LET k == Len(used)
        rises == Cardinality({j \in 1..(k - 1) : AverageRises(used[j], used[j + 1])})
    IN  /\ Len(history) >= 60
        /\ k >= 6
        /\ 100 * rises >= 75 * (k - 1)
        /\ GrowthExceeds(used, 50)

\* C18: analyze emits a memory_leak anomaly exactly when the buffer has at
\* least 60 points, at least 6 of the 12 ten-minute buckets are non-empty, at
\* least 75% of the adjacent bucket averages rise and the growth
\* (avg_last - avg_first) * 3600 / (k * 600) exceeds 50 MB/hour; severity is
\* high above 100 MB/hour and medium otherwise, z_score 0, baseline_mean the
\* first bucket average and metric_value the last (in whole hundredths of MB).
C18_MemoryLeakExactly ==
    last_call.op = "analyze" =>
        LET leaks == OfType(last_call.returned, "memory_leak")
            used == UsedBuckets(BucketTotals(memory_history, last_call.clocks[3]))
        IN  IF LeakConditions(memory_history, used)
            THEN /\ Len(leaks) = 1
                 /\ leaks[1].severity =
                       IF GrowthExceeds(used, 100) THEN "high" ELSE "medium"
                 /\ leaks[1].z_score = 0
                 /\ leaks[1].metric_name = "memory_used"
                 /\ leaks[1].baseline_mean = (100 * used[1].sum) \div used[1].count
                 /\ leaks[1].metric_value
                       = (100 * used[Len(used)].sum) \div used[Len(used)].count
            ELSE leaks = <<>>

\* the example: over sixty samples that rose by 10 MB per bucket for two
\* hours gave one memory_leak of severity medium
C18_TenPerBucketMedium ==
    /\ last_call.op = "analyze"
    /\ Len(memory_history) >= 60
    /\ LET totals == BucketTotals(memory_history, last_call.clocks[3])
       IN  /\ \A b \in 0..11 : totals[b].count > 0
           /\ \A b \in 1..11 :
                 totals[b].sum * totals[b - 1].count
                    = (totals[b - 1].sum + 10 * totals[b - 1].count) * totals[b].count
    /\ Len(OfType(last_call.returned, "memory_leak")) = 1
    /\ OfType(last_call.returned, "memory_leak")[1].severity = "medium"

NonIncreasing(history) ==
    \A i \in 1..(Len(history) - 1) : history[i + 1][2] <= history[i][2]

\* C19: while memory_used never rises from one sample to the next (flat or
\* falling), in chronological order, no analyze call emits a memory_leak.
C19_NoLeakWithoutRise ==
    (last_call.op = "analyze" /\ NonIncreasing(memory_history)) =>
        OfType(last_call.returned, "memory_leak") = <<>>

\* a falling buffer of sixty points and more in six buckets and more went
\* through the leak check
C19_FallingChecked ==
    /\ last_call.op = "analyze"
    /\ NonIncreasing(memory_history)
    /\ Len(memory_history) >= 60
    /\ Len(UsedBuckets(BucketTotals(memory_history, last_call.clocks[3]))) >= 6
    /\ memory_history[Len(memory_history)][2] < memory_history[1][2]
    /\ last_call.system_metrics.memory_used # None

\* the consecutive entries of a swap buffer more than 100 MB apart
LargeSwapChanges(history) ==
    Cardinality({i \in 1..(Len(history) - 1) :
        history[i + 1][2] - history[i][2] > 100
        \/ history[i][2] - history[i + 1][2] > 100})

\* C20: analyze emits a swap_thrashing anomaly exactly when the swap buffer
\* has at least 20 points and strictly more than 15% of the consecutive
\* absolute deltas exceed 100 MB; it has severity critical, z_score 0,
\* baseline_mean 0 and the most recent buffered swap_used as metric_value; a
\* stable buffer yields none.
C20_SwapThrashingExactly ==
    last_call.op = "analyze" =>
        LET found == OfType(last_call.returned, "swap_thrashing")
        IN  IF /\ Len(swap_history) >= 20
               /\ 100 * LargeSwapChanges(swap_history) > 15 * (Len(swap_history) - 1)
            THEN /\ Len(found) = 1
                 /\ found[1].severity = "critical"
                 /\ found[1].z_score = 0
                 /\ found[1].baseline_mean = 0
                 /\ found[1].metric_name = "swap_used"
                 /\ found[1].metric_value = swap_history[Len(swap_history)][2]
            ELSE found = <<>>

\* 4 of 20 steps were large and the anomaly was emitted
C20_JustAboveFifteen ==
    /\ last_call.op = "analyze"
    /\ Len(swap_history) = 21
    /\ LargeSwapChanges(swap_history) = 4
    /\ OfType(last_call.returned, "swap_thrashing") # <<>>

\* the trigger condition of the swap check on a buffer
ThrashConditions(history) ==
    /\ Len(history) >= 20
    /\ 100 * LargeSwapChanges(history) > 15 * (Len(history) - 1)

\* C21: the detector keeps no cooldown for trend anomalies: on every analyze
\* call at which a buffer meets its trigger condition the memory_leak or
\* swap_thrashing anomaly is emitted, also on consecutive calls while the
\* condition persists.
C21_NoTrendCooldown ==
    last_call.op = "analyze" =>
        /\ LeakConditions(memory_history,
                          UsedBuckets(BucketTotals(memory_history, last_call.clocks[3])))
              => Len(OfType(last_call.returned, "memory_leak")) = 1
        /\ ThrashConditions(swap_history)
              => Len(OfType(last_call.returned, "swap_thrashing")) = 1

\* the second of two calls five seconds apart, both with a memory sample:
\* the buffer met the leak condition at the first call and the second call
\* emitted the anomaly again
C21_EmittedAgain ==
    /\ last_call.op = "analyze"
    /\ ticks = 1
    /\ Len(memory_history) >= 62
    /\ memory_history[Len(memory_history)][1] = StartTime + CollectionInterval
    /\ memory_history[Len(memory_history) - 1][1] = StartTime
    /\ LET before == SubSeq(memory_history, 1, Len(memory_history) - 1)
       IN  LeakConditions(before, UsedBuckets(BucketTotals(before, StartTime)))
    /\ Len(OfType(last_call.returned, "memory_leak")) = 1

\* C22: update_baselines enforces no cadence of its own: every call, however
\* soon after the previous one and without force, recomputes the baselines
\* of all pairs from the current history.
C22_EveryCallRecomputes ==
    last_call.op = "update_baselines" => last_call.ran

\* the place of an anomaly in the list analyze returns, by its metric
OrderRank(a) ==
    IF a.metric_name = "cpu_percent" THEN 1
    ELSE IF a.metric_name = "memory_percent" THEN 2
    ELSE IF a.metric_name = "swap_percent" THEN 3
    ELSE IF a.anomaly_type = "memory_leak" THEN 4
    ELSE IF a.anomaly_type = "swap_thrashing" THEN 5
    ELSE 6

\* C23: the list analyze returns holds at most one z-score anomaly per
\* monitored metric in the order cpu_percent, memory_percent, swap_percent,
\* then at most one memory_leak, then at most one swap_thrashing (at most 5);
\* a metric whose value is missing or whose baseline is absent contributes
\* nothing and stops neither the later metrics nor the trend checks.
C23_ReturnedOrder ==
    last_call.op = "analyze" =>
        LET r == last_call.returned
            data == last_call.system_metrics
            context == GetTimeContext(last_call.timestamp)
        IN  /\ Len(r) <= 5
            /\ \A i \in 1..Len(r) : OrderRank(r[i]) <= 5
            /\ \A i \in 1..(Len(r) - 1) : OrderRank(r[i]) < OrderRank(r[i + 1])
            /\ \A i \in 1..Len(r) :
                  OrderRank(r[i]) <= 3 =>
                      /\ r[i].anomaly_type \notin {"memory_leak", "swap_thrashing"}
                      /\ data[r[i].metric_name] # None
                      /\ GetBaseline(r[i].metric_name, context) # <<>>
            /\ \A m \in {"cpu_percent", "memory_percent", "swap_percent"} :
                  (/\ data[m] # None
                   /\ GetBaseline(m, context) # <<>>
                   /\ CheckZscore(last_call.timestamp, m, data[m],
                                  GetBaseline(m, context)[1], context,
                                  severity_levels) # <<>>)
                  => \E i \in 1..Len(r) : r[i].metric_name = m
            /\ ThrashConditions(swap_history)
                  => \E i \in 1..Len(r) : r[i].anomaly_type = "swap_thrashing"
            /\ LeakConditions(memory_history,
                              UsedBuckets(BucketTotals(memory_history, last_call.clocks[3])))
                  => \E i \in 1..Len(r) : r[i].anomaly_type = "memory_leak"

\* cpu_percent was missing and memory_percent had no baseline, and the call
\* still returned the swap_percent anomaly and both trend anomalies
C23_SkippedThenThree ==
    /\ last_call.op = "analyze"
    /\ last_call.system_metrics.cpu_percent = None
    /\ last_call.system_metrics.memory_percent # None
    /\ GetBaseline("memory_percent", GetTimeContext(last_call.timestamp)) = <<>>
    /\ Len(last_call.returned) = 3
    /\ last_call.returned[1].metric_name = "swap_percent"
    /\ last_call.returned[2].anomaly_type = "memory_leak"
    /\ last_call.returned[3].anomaly_type = "swap_thrashing"

\* C24: for every contributor record, is_new_process is true exactly when the
\* pid is absent from the snapshot fetched for timestamp - 30s, and then
\* previous_value is 0 and delta equals current_value; otherwise delta is
\* current_value - previous_value, the latter from that pid's prior record.
C24_NewProcessFlag ==
    (rc_call.op = "analyze" /\ ~rc_call.processes_raised) =>
        LET prev == rc_call.prev_processes
            contributors == anomaly.root_cause[1].top_contributors
        IN  \A i \in 1..Len(contributors) :
                LET c == contributors[i]
                    prior == {j \in 1..Len(prev) : prev[j].pid = c.pid}
                IN  /\ c.is_new_process <=> prior = {}
                    /\ c.is_new_process =>
                          /\ c.previous_value = 0
                          /\ c.delta = c.current_value
                    /\ ~c.is_new_process =>
                          /\ \E j \in prior :
                                c.previous_value =
                                    (IF prev[j][c.metric] = None THEN 0
                                     ELSE prev[j][c.metric])
                          /\ c.delta = c.current_value - c.previous_value

\* a ranking that holds a process new since the prior snapshot and one whose
\* value changed since then
C24_NewAndChanged ==
    /\ rc_call.op = "analyze"
    /\ \E i, j \in 1..Len(anomaly.root_cause[1].top_contributors) :
          LET c == anomaly.root_cause[1].top_contributors[i]
              d == anomaly.root_cause[1].top_contributors[j]
          IN  /\ c.is_new_process
              /\ c.current_value > 0
              /\ ~d.is_new_process
              /\ d.previous_value > 0
              /\ d.delta # d.current_value

\* C25: top_contributors holds at most 10 records, each for a process among
\* the first 20 of the snapshot, in non-increasing order of |current_value|,
\* and no record left out from those 20 has a larger |current_value| than a
\* record that is kept.
C25_TopTenOfFirstTwenty ==
    (rc_call.op = "analyze" /\ ~rc_call.processes_raised) =>
        LET kept == anomaly.root_cause[1].top_contributors
            scanned == 1..(IF Len(processes) < 20 THEN Len(processes) ELSE 20)
            Size(x) == IF x = None THEN 0 ELSE IF x < 0 THEN 0 - x ELSE x
        IN  /\ Len(kept) <= 10
            /\ \A i \in 1..Len(kept) :
                  \E j \in scanned :
                     /\ processes[j].pid = kept[i].pid
                     /\ Size(processes[j][kept[i].metric]) = Size(kept[i].current_value)
            /\ \A i \in 1..(Len(kept) - 1) :
                  Size(kept[i].current_value) >= Size(kept[i + 1].current_value)
            /\ \A j \in scanned :
                  (\A i \in 1..Len(kept) : kept[i].pid # processes[j].pid)
                  => \A i \in 1..Len(kept) :
                        Size(processes[j][kept[i].metric]) <= Size(kept[i].current_value)

\* ten records were kept of a snapshot of more than twenty processes, whose
\* largest value lies beyond the twentieth and whose first ten are not the
\* ten kept
C25_CutAtBothEnds ==
    /\ rc_call.op = "analyze"
    /\ Len(processes) > 20
    /\ Len(anomaly.root_cause[1].top_contributors) = 10
    /\ \E j \in 21..Len(processes) :
          processes[j][anomaly.root_cause[1].top_contributors[1].metric]
              > anomaly.root_cause[1].top_contributors[1].current_value
    /\ \E j \in 1..10 :
          \A i \in 1..10 :
             anomaly.root_cause[1].top_contributors[i].pid # processes[j].pid

\* C26: get_time_context returns, on Monday-Friday, weekday_morning for hours
\* 6-11, weekday_afternoon for 12-17, weekday_evening for 18-22 and
\* weekday_night for 23 and 0-5; on Saturday-Sunday weekend_day for hours
\* 8-19 and weekend_night for 20-23 and 0-7.
C26_ContextTable ==
    last_call.op = "get_time_context" =>
        LET day == (last_call.dt \div 86400) % 7
            hour == (last_call.dt % 86400) \div 3600
        IN  /\ last_call.returned \in SeqToSet(Contexts)
            /\ last_call.returned =
                  (IF day \in 0..4
                   THEN CASE hour \in 6..11 -> "weekday_morning"
                          [] hour \in 12..17 -> "weekday_afternoon"
                          [] hour \in 18..22 -> "weekday_evening"
                          [] OTHER -> "weekday_night"
                   ELSE CASE hour \in 8..19 -> "weekend_day"
                          [] OTHER -> "weekend_night")

\* C27: every time the hourly condition of the loop fires and the loop calls
\* update_baselines, the baselines are recomputed in that call: the
\* Analyzer's own one-hour guard never turns a loop-triggered refresh into a
\* no-op, so the Analyzer's stamp is never older than the monitor's.
C27_LoopRefreshRecomputes ==
    last_call.op = "update_baselines" =>
        /\ last_call.ran
        /\ last_baseline_update # None
        /\ last_baseline_update >= monitor_baseline_update

\* C28: after every update_baselines call, each entry of the cache equals
\* the row of the baselines table for its pair (mean, std_dev, min, max,
\* count), so that an Analyzer constructed on the same database starts with
\* the same cache; also when a write of the store fails during the refresh.
C28_CacheMatchesStore ==
    last_call.op = "update_baselines" =>
        baselines_cache = LoadBaselinesFromDb(baselines, FALSE)

\* C29: generate_recommendations returns (and stores) a recommendation of a
\* type only when no recommendation of that type has been stored within the
\* last cooldown_hours, so any two stored recommendations of one type were
\* stored at least cooldown_hours apart.
C29_OnePerCooldownWindow ==
    /\ last_call.op = "generate_recommendations" =>
          SeqToSet(last_call.returned) \cap last_call.recent_before = {}
    /\ \A i, j \in 1..Len(recommendations) :
          (i < j /\ recommendations[i].recommendation_type
                      = recommendations[j].recommendation_type)
             => recommendations[j].stored_at - recommendations[i].stored_at
                  >= CooldownHours * SecondsPerHour

\* C30: once a signal handler has run no new cycle is started, _shutdown is
\* entered at most once, and whenever the loop has been left (by the signal,
\* a KeyboardInterrupt or an exception in a cycle) _shutdown eventually has
\* run once and the database is closed.
C30_ShutdownClosesDatabase ==
    /\ [](new_cycles = 0 /\ shutdowns <= 1)
    /\ (lpc = "finally") ~> (shutdowns = 1 /\ db_closed)

====
